---------------------------- MODULE Spec2Model ----------------------------
(***************************************************************************)
(* A model of the modular flow engine: the execution context (scoped       *)
(* variables, template resolution, root output cache), the step            *)
(* interpreter of DataflowEngine and the event-sourced PersistentEngine    *)
(* with crash and resume.                                                  *)
(*                                                                         *)
(* Python values are records [t, s, l, d]: t is the type tag, s the text   *)
(* of a str or the decimal text of an int, l the elements of a list and d  *)
(* the entries of a dict in insertion order.  Python strings are TLA+      *)
(* strings, so str(), json.dumps and the template scanner are computed     *)
(* character by character as the code computes them.                       *)
(***************************************************************************)
EXTENDS Integers, Sequences, FiniteSets, TLC

VARIABLES
    plan,        \* the loaded plan (DataflowEngine.plan), fixed per behaviour
    plan_inputs, \* DataflowEngine._plan_inputs, the user's input values
    components,  \* DataflowEngine.components: id and the config it was built from
    definitions, \* CompositeComponent._definitions, shared by the process
    run_id,      \* PersistentEngine.run_id of the running process
    persistent,  \* TRUE: PersistentEngine, FALSE: DataflowEngine
    policy,      \* DataflowEngine.error_protocol.on_error
    phase,       \* "new", "running", "finishing", "done", "crashed", "invalid";
                 \* "context", "engine", "composite" in the specifications of
                 \* one class
    run,         \* number of the process (1 = first start, 2 = first restart)
    stack,       \* the active _execute_steps / _execute_loop calls
    scopes,      \* the ExecutionContext chain, scopes[1] is the root
    comps,       \* per-instance mutable state of the components
    errors,      \* the errors list of execute()
    result,      \* the ExecutionResult, once execute() returned
    file,        \* the lines of state.jsonl
    eol,         \* TRUE when state.jsonl ends with a newline (or is empty)
    state,       \* RunState: completed_calls, completed_iterations, pending_calls
    loop_path,   \* PersistentEngine._current_loop_path
    fails,       \* executions that raised so far, over all processes
    last,        \* history: what the last step of the engine did
    hist         \* history: call resolutions and iterations of this process

vars == <<plan, plan_inputs, components, definitions, run_id, persistent, policy,
          phase, run, stack, scopes, comps, errors, result, file, eol, state,
          loop_path, fails, last, hist>>

-----------------------------------------------------------------------------
(* Bounds of the model.                                                    *)

MaxRuns == 2

MaxFails == 1

-----------------------------------------------------------------------------
(* Python values.                                                          *)

VStr(str) == [t |-> "str", s |-> str, l |-> <<>>, d |-> <<>>]

VInt(n) == [t |-> "int", s |-> ToString(n), l |-> <<>>, d |-> <<>>]

VNone == [t |-> "none", s |-> "", l |-> <<>>, d |-> <<>>]

(* True and False; s holds their str() *)
VBool(b) == [t |-> "bool", s |-> IF b THEN "True" ELSE "False", l |-> <<>>, d |-> <<>>]

VList(elems) == [t |-> "list", s |-> "", l |-> elems, d |-> <<>>]

VDict(entries) == [t |-> "dict", s |-> "", l |-> <<>>, d |-> entries]

KV(key, val) == [k |-> key, v |-> val]

(* dict operations on entries kept in insertion order *)
DKeys(d) == {d[i].k : i \in 1..Len(d)}

DHas(d, key) == \E i \in 1..Len(d) : d[i].k = key

DGet(d, key) == d[CHOOSE i \in 1..Len(d) : d[i].k = key].v

DGetOr(d, key, default) == IF DHas(d, key) THEN DGet(d, key) ELSE default

DSet(d, key, val) ==
    IF DHas(d, key)
    THEN [i \in 1..Len(d) |-> IF d[i].k = key THEN KV(key, val) ELSE d[i]]
    ELSE Append(d, KV(key, val))

RECURSIVE DUpdate(_, _)
DUpdate(d, other) ==
    IF other = <<>> THEN d
    ELSE DUpdate(DSet(d, other[1].k, other[1].v), Tail(other))

(* Python == on two dicts: same keys, equal values, whatever the order *)
DEq(d1, d2) ==
    /\ DKeys(d1) = DKeys(d2)
    /\ \A key \in DKeys(d1) : DGet(d1, key) = DGet(d2, key)

-----------------------------------------------------------------------------
(* Strings.                                                                *)

Ch(str, i) == SubSeq(str, i, i)

StrHas(str, c) == \E i \in 1..Len(str) : Ch(str, i) = c

(* str.find(c) + 1 from position from: the first position >= from, or 0 *)
FindFrom(str, c, from) ==
    IF \E i \in from..Len(str) : Ch(str, i) = c
    THEN CHOOSE i \in from..Len(str) :
            /\ Ch(str, i) = c
            /\ \A j \in from..(i - 1) : Ch(str, j) # c
    ELSE 0

Alphabet == " !\"'()*+,-./0123456789:;<=>?ABCDEFGHIJKLMNOPQRSTUVWXYZ[]^_abcdefghijklmnopqrstuvwxyz{|}"

CharRank(c) == FindFrom(Alphabet, c, 1)

(* str.lower() *)
RECURSIVE Lower(_)
Lower(str) ==
    IF str = "" THEN ""
    ELSE LET up == FindFrom("ABCDEFGHIJKLMNOPQRSTUVWXYZ", Ch(str, 1), 1)
         IN  (IF up = 0 THEN Ch(str, 1)
              ELSE Ch("abcdefghijklmnopqrstuvwxyz", up))
             \o Lower(SubSeq(str, 2, Len(str)))

RECURSIVE StrLess(_, _)
StrLess(a, b) ==
    IF b = "" THEN FALSE
    ELSE IF a = "" THEN TRUE
    ELSE IF Ch(a, 1) = Ch(b, 1) THEN StrLess(Tail(a), Tail(b))
    ELSE CharRank(Ch(a, 1)) < CharRank(Ch(b, 1))

RECURSIVE JoinStr(_, _)
JoinStr(parts, sep) ==
    IF parts = <<>> THEN ""
    ELSE IF Len(parts) = 1 THEN parts[1]
    ELSE parts[1] \o sep \o JoinStr(Tail(parts), sep)

(* sorted(keys) *)
RECURSIVE SortEntries(_)
SortEntries(d) ==
    IF d = <<>> THEN <<>>
    ELSE LET m == CHOOSE i \in 1..Len(d) :
                      \A j \in 1..Len(d) : j = i \/ ~StrLess(d[j].k, d[i].k)
             rest == [j \in 1..(Len(d) - 1) |-> IF j < m THEN d[j] ELSE d[j + 1]]
         IN  <<d[m]>> \o SortEntries(rest)

(* repr() and str() of a value *)
RECURSIVE PyRepr(_)
PyRepr(v) ==
    CASE v.t = "str" -> "'" \o v.s \o "'"
      [] v.t = "int" -> v.s
      [] v.t = "bool" -> v.s
      [] v.t = "obj" -> v.s
      [] v.t = "none" -> "None"
      [] v.t = "list" ->
            "[" \o JoinStr([i \in 1..Len(v.l) |-> PyRepr(v.l[i])], ", ") \o "]"
      [] v.t = "dict" ->
            "{" \o JoinStr([i \in 1..Len(v.d) |->
                     "'" \o v.d[i].k \o "': " \o PyRepr(v.d[i].v)], ", ") \o "}"

PyStr(v) == IF v.t = "str" THEN v.s ELSE PyRepr(v)

(* json.dumps(v, sort_keys=True, default=str) *)
RECURSIVE JsonDumps(_)
JsonDumps(v) ==
    CASE v.t = "str" -> "\"" \o v.s \o "\""
      [] v.t = "int" -> v.s
      [] v.t = "bool" -> IF v.s = "True" THEN "true" ELSE "false"
      [] v.t = "obj" -> "\"" \o v.s \o "\""
      [] v.t = "none" -> "null"
      [] v.t = "list" ->
            "[" \o JoinStr([i \in 1..Len(v.l) |-> JsonDumps(v.l[i])], ", ") \o "]"
      [] v.t = "dict" ->
            LET e == SortEntries(v.d)
            IN  "{" \o JoinStr([i \in 1..Len(e) |->
                     "\"" \o e[i].k \o "\": " \o JsonDumps(e[i].v)], ", ") \o "}"

-----------------------------------------------------------------------------
(* ExecutionContext.  A context is [vars, outs, finalized, warned,         *)
(* returns]; scopes[d - 1] is the parent of scopes[d].                     *)

NewContext(variables) ==
    [vars |-> variables, outs |-> <<>>, finalized |-> {}, warned |-> {},
     returns |-> <<>>]

(* a child context that is given no variables *)
ChildBare(sc, variables) == Append(sc, NewContext(<<>>))

(* ExecutionContext.child *)
Child(sc, variables) == Append(sc, NewContext(variables))

VObj == [t |-> "obj", s |-> "<built-in method>", l |-> <<>>, d |-> <<>>]

(* getattr(base, field, default) on a value that is no dict *)
GetAttr(base, field, default) ==
    IF base.t \in {"str", "list"} /\ field \in {"count", "index"}
    THEN VObj ELSE default

(* ExecutionContext.get for names without an index *)
RECURSIVE CtxGet(_, _, _)
CtxGet(sc, d, name) ==
    LET dot == FindFrom(name, ".", 1) IN
    IF dot # 0
    THEN LET p0 == SubSeq(name, 1, dot - 1)
             p1 == SubSeq(name, dot + 1, Len(name))
             base == CtxGet(sc, d, p0)
         IN  IF base = VNone
             THEN IF DHas(sc[d].outs, p0)
                  THEN DGetOr(DGet(sc[d].outs, p0).d, p1, VNone)
                  ELSE IF d > 1 THEN CtxGet(sc, d - 1, name) ELSE VNone
             ELSE IF base.t = "dict" THEN DGetOr(base.d, p1, VNone)
             ELSE GetAttr(base, p1, VNone)
    ELSE IF DHas(sc[d].vars, name) THEN DGet(sc[d].vars, name)
    ELSE IF DHas(sc[d].outs, name) THEN DGet(sc[d].outs, name)
    ELSE IF d > 1 THEN CtxGet(sc, d - 1, name)
    ELSE VNone

(* int(match.group(1)) for a string of digits *)
RECURSIVE ParseNat(_)
ParseNat(str) ==
    IF str = "" THEN 0
    ELSE 10 * ParseNat(SubSeq(str, 1, Len(str) - 1))
         + FindFrom("0123456789", Ch(str, Len(str)), 1) - 1

(* _get_with_indexing, the parse: "results[0].field" gives the segments    *)
(* results, 0, field; a segment is [idx, s], idx = -1 for a name.  The     *)
(* names given to it have digits between their brackets (on any other      *)
(* bracket the parse loop of the code does not advance)                    *)
RECURSIVE Segments(_)
Segments(cur) ==
    IF cur = "" THEN <<>>
    ELSE IF Ch(cur, 1) = "["
    THEN LET close == FindFrom(cur, "]", 1)
             rest == SubSeq(cur, close + 1, Len(cur))
         IN  <<[idx |-> ParseNat(SubSeq(cur, 2, close - 1)), s |-> ""]>>
             \o Segments(IF rest # "" /\ Ch(rest, 1) = "."
                         THEN SubSeq(rest, 2, Len(rest)) ELSE rest)
    ELSE LET dot == FindFrom(cur, ".", 1)
             bra == FindFrom(cur, "[", 1)
         IN  IF dot = 0 /\ bra = 0 THEN <<[idx |-> -1, s |-> cur]>>
             ELSE IF bra = 0 \/ (dot # 0 /\ dot < bra)
             THEN <<[idx |-> -1, s |-> SubSeq(cur, 1, dot - 1)]>>
                  \o Segments(SubSeq(cur, dot + 1, Len(cur)))
             ELSE <<[idx |-> -1, s |-> SubSeq(cur, 1, bra - 1)]>>
                  \o Segments(SubSeq(cur, bra, Len(cur)))

(* _get_with_indexing, the navigation through the segments after the first *)
RECURSIVE Navigate(_, _)
Navigate(value, segs) ==
    IF segs = <<>> THEN value
    ELSE IF value = VNone THEN VNone
    ELSE LET seg == segs[1]
             next == IF seg.idx >= 0
                     THEN IF value.t = "list" /\ seg.idx < Len(value.l)
                          THEN value.l[seg.idx + 1] ELSE VNone
                     ELSE IF value.t = "dict" THEN DGetOr(value.d, seg.s, VNone)
                     ELSE GetAttr(value, seg.s, VNone)
         IN  Navigate(next, Tail(segs))

(* ExecutionContext.get with the default None *)
Get(sc, d, name) ==
    IF StrHas(name, "[")
    THEN LET segs == Segments(name)
         IN  IF segs = <<>> THEN VNone
             ELSE Navigate(CtxGet(sc, d, segs[1].s), Tail(segs))
    ELSE CtxGet(sc, d, name)

(* a set that writes to the root context *)
CtxSetRoot(sc, d, name, val) ==
    [sc EXCEPT ![1].vars = DSet(@, name, val)]

(* ExecutionContext.set: the variable goes to this context *)
CtxSet(sc, d, name, val) ==
    [sc EXCEPT ![d].vars = DSet(@, name, val)]

(* a set_component_output that writes to the innermost context *)
SetOutputHere(sc, d, id, outputs) ==
    [sc EXCEPT ![Len(sc)].outs = DSet(@, id, VDict(outputs))]

(* ExecutionContext.set_component_output, always called on the root *)
SetComponentOutput(sc, d, id, outputs) ==
    [sc EXCEPT ![d].outs = DSet(@, id, VDict(outputs))]

(* ExecutionContext.mark_sink_finalized: this context and its ancestors *)
RECURSIVE MarkSinkFinalized(_, _, _)
MarkSinkFinalized(sc, d, id) ==
    LET here == [sc EXCEPT ![d].finalized = @ \cup {id}]
    IN  IF d > 1 THEN MarkSinkFinalized(here, d - 1, id) ELSE here

(* a finalization test that looks at one context only *)
IsFinalizedHere(sc, d, id) == id \in sc[d].finalized

(* ExecutionContext.is_sink_finalized *)
RECURSIVE IsSinkFinalized(_, _, _)
IsSinkFinalized(sc, d, id) ==
    \/ id \in sc[d].finalized
    \/ d > 1 /\ IsSinkFinalized(sc, d - 1, id)

(* a write to "return" that stays in the context it was issued from *)
WriteHere(sc, d, data) == [sc EXCEPT ![d].returns = DUpdate(@, data)]

(* ExecutionContext._write_return: hand the data up to the root, update    *)
(* the accumulator there                                                   *)
RECURSIVE WriteReturn(_, _, _)
WriteReturn(sc, d, data) ==
    IF d > 1 THEN WriteReturn(sc, d - 1, data)
    ELSE [sc EXCEPT ![1].returns = DUpdate(@, data)]

(* ExecutionContext.get_returns: the root's accumulator *)
RECURSIVE GetReturns(_, _)
GetReturns(sc, d) == IF d > 1 THEN GetReturns(sc, d - 1) ELSE sc[1].returns

(* re.fullmatch(r"\{([^}]+)\}", template) *)
FullMatch(tpl) ==
    /\ Len(tpl) >= 3
    /\ Ch(tpl, 1) = "{"
    /\ Ch(tpl, Len(tpl)) = "}"
    /\ \A i \in 2..(Len(tpl) - 1) : Ch(tpl, i) # "}"

(* a substitution that replaces the first placeholder only *)
ReSubOnce(sc, d, tpl) ==
    LET p == FindFrom(tpl, "{", 1)
        q == IF p = 0 THEN 0 ELSE FindFrom(tpl, "}", p + 1)
    IN  IF q <= p + 1 THEN tpl
        ELSE LET val == Get(sc, d, SubSeq(tpl, p + 1, q - 1))
                 rep == IF val # VNone THEN PyStr(val) ELSE SubSeq(tpl, p, q)
             IN  SubSeq(tpl, 1, p - 1) \o rep \o SubSeq(tpl, q + 1, Len(tpl))

(* re.sub(r"\{([^}]+)\}", replace, template) *)
RECURSIVE ReSub(_, _, _)
ReSub(sc, d, tpl) ==
    LET p == FindFrom(tpl, "{", 1) IN
    IF p = 0 THEN tpl
    ELSE LET q == FindFrom(tpl, "}", p + 1) IN
         IF q = 0 THEN tpl
         ELSE IF q = p + 1
         THEN SubSeq(tpl, 1, p) \o ReSub(sc, d, SubSeq(tpl, p + 1, Len(tpl)))
         ELSE LET val == Get(sc, d, SubSeq(tpl, p + 1, q - 1))
                  rep == IF val # VNone THEN PyStr(val) ELSE SubSeq(tpl, p, q)
              IN  SubSeq(tpl, 1, p - 1) \o rep
                      \o ReSub(sc, d, SubSeq(tpl, q + 1, Len(tpl)))

(* a resolve that substitutes every placeholder by its string form *)
ResolveStringified(sc, d, tpl) == VStr(ReSub(sc, d, tpl))

(* ExecutionContext._resolve_string *)
ResolveString(sc, d, tpl) ==
    IF FullMatch(tpl)
    THEN LET res == Get(sc, d, SubSeq(tpl, 2, Len(tpl) - 1))
         IN  IF res # VNone THEN res ELSE VStr(tpl)
    ELSE VStr(ReSub(sc, d, tpl))

(* ExecutionContext.resolve *)
RECURSIVE Resolve(_, _, _)
Resolve(sc, d, v) ==
    CASE v.t = "str" -> ResolveString(sc, d, v.s)
      [] v.t = "list" -> VList([i \in 1..Len(v.l) |-> Resolve(sc, d, v.l[i])])
      [] v.t = "dict" ->
            VDict([i \in 1..Len(v.d) |-> KV(v.d[i].k, Resolve(sc, d, v.d[i].v))])
      [] OTHER -> v

(* ExecutionContext.resolve_inputs *)
ResolveInputs(sc, d, spec) ==
    [i \in 1..Len(spec) |-> KV(spec[i].k, Resolve(sc, d, spec[i].v))]

-----------------------------------------------------------------------------
(* Plans.  A step is a record with every field present; index "" stands    *)
(* for a loop without an index variable.                                   *)

NoStep ==
    [tag |-> "", id |-> "", inputs |-> <<>>, outputs |-> <<>>, over |-> "",
     as |-> "", index |-> "", steps |-> <<>>, els |-> <<>>, cif |-> ""]

SourceStep(id) == [NoStep EXCEPT !.tag = "source", !.id = id]

CallStep(id, inputs, outputs) ==
    [NoStep EXCEPT !.tag = "call", !.id = id, !.inputs = inputs,
                   !.outputs = outputs]

SinkStep(id, inputs) == [NoStep EXCEPT !.tag = "sink", !.id = id, !.inputs = inputs]

LoopStep(over, as, index, steps) ==
    [NoStep EXCEPT !.tag = "loop", !.over = over, !.as = as, !.index = index,
                   !.steps = steps]

(* {"conditional": {"if": cif, "then": steps, "else": els}} *)
CondStep(cif, then, els) ==
    [NoStep EXCEPT !.tag = "conditional", !.cif = cif, !.steps = then,
                   !.els = els]

Out(output, var) == [o |-> output, var |-> var]

In(name, template) == KV(name, VStr(template))

ItemsAB == <<VStr("a"), VStr("b")>>

(* an entry of the plan's "components": known says whether its type is in  *)
(* the registry                                                            *)
Comp(id, known) == [id |-> id, known |-> known]

AllComponents == <<Comp("s", TRUE), Comp("t", TRUE), Comp("u", TRUE), Comp("k", TRUE)>>

(* source, call with outputs mapping, sink *)
PlanPipeline ==
    [name |-> "pipeline", value |-> ItemsAB, components |-> AllComponents, inputs |-> <<>>,
     flow |-> << SourceStep("s"),
                 CallStep("t", <<In("x", "{s.items}")>>, <<Out("y", "v")>>),
                 SinkStep("k", <<In("payload", "{v}")>>) >>]

(* a loop feeding a collector, finalized after the loop, then a call that  *)
(* reads what the loop left in the root cache                              *)
PlanLoop ==
    [name |-> "loop", value |-> ItemsAB, components |-> AllComponents, inputs |-> <<>>,
     flow |-> << SourceStep("s"),
                 LoopStep("s.items", "it", "ix",
                          << CallStep("t", <<In("x", "{it}")>>,
                                      <<Out("y", "v"), Out("z", "w")>>),
                             SinkStep("k", <<In("val", "{v}")>>) >>),
                 SinkStep("k", <<>>),
                 CallStep("u", <<In("x", "{t.y}")>>, <<Out("y", "r")>>) >>]

(* nested loops *)
PlanNested ==
    [name |-> "nested", value |-> ItemsAB, components |-> AllComponents,
     inputs |-> <<KV("nums", VList(<<VInt(1), VInt(2)>>))>>,
     flow |-> << SourceStep("s"),
                 LoopStep("s.items", "outer", "oi",
                          << LoopStep("nums", "inner", "",
                                      << CallStep("t", <<In("x", "{outer}-{inner}")>>,
                                                  <<Out("y", "v")>>) >>) >>) >>]

(* two loops, one after the other, with the same loop variable *)
PlanSiblings ==
    [name |-> "siblings", value |-> ItemsAB, components |-> AllComponents, inputs |-> <<>>,
     flow |-> << SourceStep("s"),
                 LoopStep("s.items", "it", "",
                          << CallStep("t", <<In("x", "{it}")>>, <<>>) >>),
                 LoopStep("s.items", "it", "",
                          << CallStep("u", <<In("x", "{it}")>>, <<>>) >>) >>]

(* calls on one component whose inputs resolve to equal values from        *)
(* different templates and in a different key order                        *)
PlanSame ==
    [name |-> "same", value |-> ItemsAB, components |-> AllComponents,
     inputs |-> <<KV("a", VStr("p1")), KV("n", VInt(1))>>,
     flow |-> << CallStep("u", <<In("x", "{a}"), In("w", "k")>>, <<>>),
                 LoopStep("a", "c", "",
                          << CallStep("u", <<In("w", "k"), In("x", "{c}{n}")>>,
                                      <<>>) >>) >>]

(* the loop variable is assigned again inside the iteration: by an outputs *)
(* mapping, and by a nested loop that uses the same name                   *)
PlanShadow ==
    [name |-> "shadow", value |-> ItemsAB, components |-> AllComponents,
     inputs |-> <<KV("nums", VList(<<VInt(1)>>))>>,
     flow |-> << SourceStep("s"),
                 LoopStep("s.items", "it", "",
                          << CallStep("u", <<In("x", "{it}!")>>, <<Out("y", "it")>>),
                             LoopStep("nums", "it", "it",
                                      << CallStep("t", <<In("x", "{it}")>>,
                                                  <<>>) >>) >>) >>]

(* a loop over a name that is defined nowhere, then a loop over an integer *)
PlanOver ==
    [name |-> "over", value |-> ItemsAB, components |-> AllComponents,
     inputs |-> <<KV("n", VInt(1))>>,
     flow |-> << LoopStep("q", "c", "",
                          << CallStep("u", <<In("x", "{c}")>>, <<>>) >>),
                 LoopStep("n", "c", "",
                          << CallStep("u", <<In("x", "{c}")>>, <<>>) >>) >>]

(* a sink whose execute may raise, and a call that reads its outputs *)
PlanSinkFail ==
    [name |-> "sinkfail", value |-> ItemsAB, components |-> AllComponents,
     inputs |-> <<>>,
     flow |-> << SourceStep("s"),
                 LoopStep("s.items", "it", "",
                          << SinkStep("k", <<In("val", "{it}")>>) >>),
                 SinkStep("k", <<>>),
                 CallStep("u", <<In("x", "{k.count}")>>, <<>>) >>]

(* the values a plan input "flag" takes in the conditional plans *)
IfValues ==
    { VStr("false"), VStr("No"), VStr("0"), VStr(""), VStr("FALSE"), VStr("yes"),
      VStr("none"), VInt(0), VInt(1), VBool(FALSE), VBool(TRUE), VList(<<>>),
      VList(<<VInt(0)>>), VNone }

(* a conditional on a plan input with both branches, then a conditional    *)
(* without else on a reference that is defined nowhere                     *)
PlanCond(flag) ==
    [name |-> "cond", value |-> ItemsAB, components |-> AllComponents,
     inputs |-> <<KV("flag", flag)>>,
     flow |-> << CondStep("{flag}",
                          << CallStep("u", <<In("x", "then")>>, <<>>) >>,
                          << CallStep("u", <<In("x", "else")>>, <<>>) >>),
                 CondStep("{nope}",
                          << CallStep("u", <<In("x", "then2")>>, <<>>) >>,
                          <<>>) >>]

(* a conditional inside a loop, on the loop variable *)
PlanCondLoop ==
    [name |-> "condloop", value |-> ItemsAB, components |-> AllComponents,
     inputs |-> <<KV("flags", VList(<<VStr("no"), VInt(2)>>))>>,
     flow |-> << LoopStep("flags", "f", "",
                          << CondStep("{f}",
                                      << CallStep("t", <<In("x", "T{f}")>>, <<>>) >>,
                                      << CallStep("u", <<In("x", "E{f}")>>, <<>>) >>),
                             CallStep("u", <<In("x", "after")>>, <<>>) >>) >>]

(* a step inside a loop names an id that is not among the components *)
PlanBad ==
    [name |-> "bad", value |-> ItemsAB, components |-> AllComponents,
     inputs |-> <<>>,
     flow |-> << SourceStep("s"),
                 LoopStep("s.items", "it", "",
                          << CallStep("t", <<In("x", "{it}")>>, <<>>),
                             CallStep("z", <<In("x", "{it}")>>, <<>>) >>) >>]

(* the pipeline with a component whose type is not registered *)
PlanBadType ==
    [name |-> "badtype", value |-> ItemsAB,
     components |-> <<Comp("s", TRUE), Comp("t", FALSE), Comp("k", TRUE)>>,
     inputs |-> <<>>,
     flow |-> PlanPipeline.flow]

Plans ==
    {PlanPipeline, PlanLoop, PlanNested, PlanSiblings, PlanSame, PlanShadow,
     PlanOver, PlanBad, PlanBadType, PlanCondLoop, PlanSinkFail}
    \cup {PlanCond(flag) : flag \in IfValues}

(* the step list a path names: <<>> is the flow, P \o <<j, 0>> the steps   *)
(* of the loop at P[j], P \o <<j, 1>> / <<j, 2>> a conditional's branches  *)
RECURSIVE StepsAt(_, _)
StepsAt(steps, path) ==
    IF path = <<>> THEN steps
    ELSE LET st == steps[path[1]]
         IN  StepsAt(IF path[2] = 2 THEN st.els ELSE st.steps, Tail(Tail(path)))

(* the loop step a loop frame's list belongs to *)
LoopOf(flow, path) ==
    StepsAt(flow, SubSeq(path, 1, Len(path) - 2))[path[Len(path) - 1]]

-----------------------------------------------------------------------------
(* Components: one instance of each kind, "s" source/literal, "t" an echo  *)
(* transform whose execute may raise, "u" a counting transform, "k"        *)
(* sink/collector.                                                         *)

FreshComps == [collected |-> <<>>, finalized |-> FALSE, n |-> 0]

(* the components whose execute may raise: the sink in the plan made for   *)
(* it, the transform "t" everywhere else                                   *)
Flaky == IF plan.name = "sinkfail" THEN {"k"} ELSE {"t"}

(* DataflowEngine._instantiate_components: the ids created, in the order  *)
(* of the plan; registry.create raises at the first unknown type and the   *)
(* components after it are never created                                   *)
RECURSIVE Instantiate(_)
Instantiate(defs) ==
    IF defs = <<>> \/ ~defs[1].known THEN {}
    ELSE {defs[1].id} \cup Instantiate(Tail(defs))

Instantiated(p) == Instantiate(p.components)

(* get_input_schema: the declared inputs of the plan, name and default     *)
(* (None for an input declared without a default or by its type alone)     *)
GetInputSchema(p) == IF "declared" \in DOMAIN p THEN p.declared ELSE <<>>

InputPrefix == "{$inputs."

(* re.fullmatch(r"\{\$inputs\.([^}]+)\}", value) *)
FullMatchInput(str) ==
    /\ Len(str) > Len(InputPrefix) + 1
    /\ SubSeq(str, 1, Len(InputPrefix)) = InputPrefix
    /\ FindFrom(str, "}", 1) = Len(str)

(* the regex matches at position i of the string *)
InputMatchAt(str, i) ==
    /\ i + Len(InputPrefix) <= Len(str)
    /\ SubSeq(str, i, i + Len(InputPrefix) - 1) = InputPrefix
    /\ FindFrom(str, "}", i + Len(InputPrefix)) > i + Len(InputPrefix)

(* the value of an input: the user's value, else the declared default *)
InputKnown(inputs, schema, name) ==
    \/ DHas(inputs, name)
    \/ DHas(schema, name) /\ DGet(schema, name) # VNone

InputValue(inputs, schema, name) ==
    IF DHas(inputs, name) THEN DGet(inputs, name) ELSE DGet(schema, name)

(* re.sub(r"\{\$inputs\.([^}]+)\}", replace_input, value) *)
RECURSIVE ReSubInputs(_, _, _)
ReSubInputs(inputs, schema, str) ==
    IF \A i \in 1..Len(str) : ~InputMatchAt(str, i) THEN str
    ELSE LET p == CHOOSE i \in 1..Len(str) :
                      /\ InputMatchAt(str, i)
                      /\ \A j \in 1..(i - 1) : ~InputMatchAt(str, j)
             q == FindFrom(str, "}", p + Len(InputPrefix))
             name == SubSeq(str, p + Len(InputPrefix), q - 1)
             rep == IF InputKnown(inputs, schema, name)
                    THEN PyStr(InputValue(inputs, schema, name))
                    ELSE SubSeq(str, p, q)
         IN  SubSeq(str, 1, p - 1) \o rep
                 \o ReSubInputs(inputs, schema, SubSeq(str, q + 1, Len(str)))

(* _resolve_input_references on a string that is one reference *)
ResolveFull(inputs, schema, str) ==
    LET name == SubSeq(str, Len(InputPrefix) + 1, Len(str) - 1)
    IN  IF InputKnown(inputs, schema, name)
        THEN InputValue(inputs, schema, name)
        ELSE VStr(str)

(* DataflowEngine._resolve_input_references *)
RECURSIVE ResolveInputReferences(_, _, _)
ResolveInputReferences(inputs, schema, v) ==
    CASE v.t = "str" ->
            IF FullMatchInput(v.s) THEN ResolveFull(inputs, schema, v.s)
            ELSE VStr(ReSubInputs(inputs, schema, v.s))
      [] v.t = "dict" ->
            VDict([i \in 1..Len(v.d) |->
                      KV(v.d[i].k, ResolveInputReferences(inputs, schema, v.d[i].v))])
      [] v.t = "list" ->
            VList([i \in 1..Len(v.l) |->
                      ResolveInputReferences(inputs, schema, v.l[i])])
      [] OTHER -> v

(* CompositeComponent.register_definition at startup: the composite type  *)
(* "cmp" with the "internal" section of its definition; "inner" has a      *)
(* config, "bare" has none; the flow calls both (echo transforms) and      *)
(* names q, which the composite may be given as an input, and secret, r    *)
(* and bare, which the calling plan may have of its own                    *)
RegisteredDefinitions ==
    [cmp |->
        [components |->
            << [id |-> "inner", known |-> TRUE,
                config |-> <<KV("model", VStr("base")), KV("temp", VInt(1))>>],
               [id |-> "bare", known |-> TRUE] >>,
         flow |->
            << CallStep("inner", <<In("x", "{q}-{secret}")>>, <<Out("y", "r")>>),
               CallStep("bare", <<In("x", "{r}{inner.y}")>>, <<>>) >>,
         output_mappings |->
            << In("answer", "{r}"), In("seen", "{secret}"),
               In("both", "{bare.y}") >>]]

(* comp_def.get("config", {}) *)
ConfigOf(def) == IF "config" \in DOMAIN def THEN def.config ELSE <<>>

(* DataflowEngine._instantiate_components: self.components, each id with   *)
(* the resolved config given to registry.create; the loop ends at the      *)
(* first type the registry does not know                                   *)
RECURSIVE InstantiateComponents(_, _, _)
InstantiateComponents(defs, inputs, schema) ==
    IF defs = <<>> \/ ~defs[1].known THEN <<>>
    ELSE <<KV(defs[1].id,
              ResolveInputReferences(inputs, schema, VDict(ConfigOf(defs[1]))))>>
         \o InstantiateComponents(Tail(defs), inputs, schema)

(* validate(): the component types that are not in the registry *)
UnknownTypes(p) ==
    {p.components[i].id : i \in {j \in 1..Len(p.components) : ~p.components[j].known}}

(* a check of the references that looks at the top-level steps only *)
CheckTop(steps, ids) ==
    {steps[i].id : i \in {j \in 1..Len(steps) :
                             /\ steps[j].tag \in {"source", "call", "sink"}
                             /\ steps[j].id \notin ids}}

(* validate(), check_flow: the ids that source, call and sink steps name   *)
(* and that are not among the components, in loops and conditionals too    *)
RECURSIVE CheckFlow(_, _)
CheckFlow(steps, ids) ==
    UNION { LET st == steps[i] IN
            (IF st.tag \in {"source", "call", "sink"} /\ st.id \notin ids
             THEN {st.id} ELSE {})
            \cup (IF st.tag = "loop" THEN CheckFlow(st.steps, ids) ELSE {})
            \cup (IF st.tag = "conditional"
                  THEN CheckFlow(st.steps, ids) \cup CheckFlow(st.els, ids)
                  ELSE {})
          : i \in 1..Len(steps) }

(* DataflowEngine.validate: the errors found *)
ValidatePlan(p) == UnknownTypes(p) \cup CheckFlow(p.flow, Instantiated(p))

(* the error protocol a component class declares for itself: the flaky    *)
(* transform declares retry, as the transforms calling a model do; the     *)
(* others declare none                                                     *)
ErrorProtocolOf(id) == IF id = "t" THEN "retry" ELSE ""

(* LiteralSource.execute *)
SourceExecute(value) ==
    << KV("value", VList(value)), KV("items", VList(value)),
       KV("count", VInt(Len(value))) >>

(* Component.validate: required inputs present *)
Validate(id, inputs) == id \notin {"t", "u"} \/ DHas(inputs, "x")

(* execute of the transforms: outputs and the component's next state *)
TransformExecute(id, cs, inputs) ==
    IF id = "u"
    THEN [out |-> <<KV("y", DGet(inputs, "x")), KV("n", VInt(cs.n + 1))>>,
          cs |-> [cs EXCEPT !.n = @ + 1]]
    ELSE [out |-> <<KV("y", DGet(inputs, "x"))>>, cs |-> cs]

(* CollectorSink.execute: outputs, next state, and what goes to "return" *)
CollectorExecute(id, cs, inputs) ==
    LET collected == IF inputs # <<>> THEN Append(cs.collected, VDict(inputs))
                     ELSE cs.collected
        data == <<KV("items", VList(collected)), KV("count", VInt(Len(collected)))>>
        fin == inputs = <<>> /\ ~cs.finalized
    IN  [out |-> data,
         cs |-> [cs EXCEPT !.collected = collected,
                           !.finalized = cs.finalized \/ fin],
         ret |-> IF fin THEN <<KV(id, VDict(data))>> ELSE <<>>]

-----------------------------------------------------------------------------
(* The state file.  An event is the JSON object of one line; its field g   *)
(* is history only (the step or iteration the event belongs to, the        *)
(* resolved inputs, the process that wrote it) and is not in the file.     *)
(* A line is the sequence of writes that ended up on it: [ev, full], full  *)
(* FALSE for a write cut short by a crash.                                 *)

NoSite == [list |-> <<>>, pc |-> 0, iters |-> <<>>]

NoEvent ==
    [type |-> "", run_id |-> "", plan_name |-> "", component |-> "",
     call_hash |-> "", outputs |-> <<>>, iteration_key |-> "",
     loop_var |-> "", index |-> 0, success |-> FALSE, errors_count |-> 0,
     g |-> [site |-> NoSite, inputs |-> <<>>, run |-> 0]]

(* the run_id given to the constructor of the first engine *)
RunId == "r1"

(* PersistentEngine._log_event: append the line, newline included *)
LogEvent(f, nl, ev) ==
    IF nl \/ f = <<>> THEN Append(f, <<[ev |-> ev, full |-> TRUE]>>)
    ELSE [f EXCEPT ![Len(f)] = Append(@, [ev |-> ev, full |-> TRUE])]

(* the same write cut short: a proper, non-empty prefix and no newline *)
LogCut(f, nl, ev) ==
    IF nl \/ f = <<>> THEN Append(f, <<[ev |-> ev, full |-> FALSE]>>)
    ELSE [f EXCEPT ![Len(f)] = Append(@, [ev |-> ev, full |-> FALSE])]

(* a parser that takes whatever the line starts with *)
ParsePrefix(line) == Len(line) >= 1

(* json.loads(line): an object only when the line is one complete write;   *)
(* otherwise JSONDecodeError                                               *)
ParseOk(line) == Len(line) = 1 /\ line[1].full

(* json.loads(json.dumps(v, default=str)): what a value of an event is     *)
(* when the line is read back; an object that JSON does not know comes     *)
(* back as the string str() gave for it                                    *)
RECURSIVE JsonValue(_)
JsonValue(v) ==
    CASE v.t = "obj" -> VStr(v.s)
      [] v.t = "list" -> VList([i \in 1..Len(v.l) |-> JsonValue(v.l[i])])
      [] v.t = "dict" ->
            VDict([i \in 1..Len(v.d) |-> KV(v.d[i].k, JsonValue(v.d[i].v))])
      [] OTHER -> v

FreshState ==
    [completed_calls |-> <<>>, completed_iterations |-> {},
     pending_calls |-> {}, total_events |-> 0, calls_cached |-> 0,
     iterations_cached |-> 0]

(* an _apply_event that keeps the outputs a hash already has *)
ApplyEventFirst(st, ev) ==
    CASE ev.type = "call_start" /\ ev.call_hash # "" ->
            [st EXCEPT !.pending_calls = @ \cup {ev.call_hash}]
      [] ev.type = "call_complete" /\ ev.call_hash # "" ->
            [st EXCEPT !.pending_calls = @ \ {ev.call_hash},
                       !.completed_calls =
                           IF DHas(@, ev.call_hash) THEN @
                           ELSE DSet(@, ev.call_hash, JsonValue(VDict(ev.outputs))),
                       !.calls_cached = @ + 1]
      [] OTHER -> st

(* PersistentEngine._apply_event *)
ApplyEvent(st, ev) ==
    CASE ev.type = "call_start" /\ ev.call_hash # "" ->
            [st EXCEPT !.pending_calls = @ \cup {ev.call_hash}]
      [] ev.type = "call_complete" /\ ev.call_hash # "" ->
            [st EXCEPT !.pending_calls = @ \ {ev.call_hash},
                       !.completed_calls = DSet(@, ev.call_hash,
                                                JsonValue(VDict(ev.outputs))),
                       !.calls_cached = @ + 1]
      [] ev.type = "iteration_complete" /\ ev.iteration_key # "" ->
            [st EXCEPT !.completed_iterations = @ \cup {ev.iteration_key},
                       !.iterations_cached = @ + 1]
      [] OTHER -> st

(* the loop of _load_existing_state over the lines *)
RECURSIVE LoadLines(_, _)
LoadLines(st, lines) ==
    IF lines = <<>> THEN st
    ELSE LET line == lines[1]
         IN  LoadLines(IF ParseOk(line)
                       THEN [ApplyEvent(st, line[1].ev)
                                EXCEPT !.total_events = st.total_events + 1]
                       ELSE st,
                       Tail(lines))

(* PersistentEngine._load_existing_state; total_events is events_loaded *)
LoadExistingState(f) == LoadLines(FreshState, f)

(* PersistentEngine._compute_call_hash; the 16 hex digits of SHA-256 are   *)
(* taken to be collision free and stand for the hashed key itself          *)
ComputeCallHash(id, inputs) == id \o ":" \o JsonDumps(VDict(inputs))

(* the loop_path_entry of PersistentEngine._execute_loop *)
LoopPathEntry(loop_var, i, item) ==
    loop_var \o "[" \o ToString(i) \o "]:" \o PyStr(item)

(* PersistentEngine._get_iteration_key *)
GetIterationKey(path, loop_var, item, i) ==
    JoinStr(path, "/") \o "/" \o LoopPathEntry(loop_var, i, item)

-----------------------------------------------------------------------------
(* The interpreter.  A frame of the stack is one active step list: kind    *)
(* "steps" for the flow (or a branch), kind "loop" for _execute_loop and   *)
(* the _execute_steps of its current iteration.  pc is the step being      *)
(* executed (1-based); a loop frame with pc = 0 is between iterations.     *)

Policies == {"stop", "skip", "retry", "default"}

Frame(kind, list) ==
    [kind |-> kind, list |-> list, pc |-> 1, i |-> 0, coll |-> <<>>,
     key |-> "", sub |-> ""]

NoResult == [done |-> FALSE, success |-> FALSE, outputs |-> <<>>]

NoLast ==
    [op |-> "", comp |-> "", hash |-> "", out |-> <<>>, prev |-> VNone,
     d |-> 0, site |-> NoSite]

FreshHist ==
    [execs |-> {}, calls |-> {}, iters |-> {}, raised |-> {}, writes |-> <<>>,
     branches |-> {}, warnings |-> <<>>, inner |-> <<>>]

Top == stack[Len(stack)]

D == Len(scopes)

CurSteps == StepsAt(plan.flow, Top.list)

Cur == CurSteps[Top.pc]

AtStep(tag) ==
    /\ phase = "running"
    /\ stack # <<>>
    /\ Top.pc \in 1..Len(CurSteps)
    /\ CurSteps[Top.pc].tag = tag

Advance(stk) == [stk EXCEPT ![Len(stk)].pc = @ + 1, ![Len(stk)].sub = ""]

(* history: the step instance the top frame is executing *)
Site == [list |-> Top.list, pc |-> Top.pc,
         iters |-> [j \in 1..Len(stack) |-> stack[j].i]]

(* history: the iteration the top (loop) frame is at *)
IterSite == [Site EXCEPT !.pc = 0]

ErrRec(type, idx, rec, act) ==
    [error_type |-> type, step_index |-> idx, recovered |-> rec,
     recovery_action |-> act]

Proceed(stk) == stack' = stk /\ UNCHANGED <<errors, result, phase>>

(* the default_value of the plan's error_handling *)
DefaultValue == VStr("dv")

(* ErrorProtocol.max_retries *)
MaxRetries == 3

(* an except branch that records the error as skipped whatever the policy *)
RaiseSkip(etype) ==
    /\ errors' = Append(errors, ErrRec(etype, Top.pc - 1, TRUE, "skipped"))
    /\ stack' = Advance(stack)
    /\ UNCHANGED <<result, phase>>

(* an except branch that swallows the error without a record *)
RaiseSilent(etype) ==
    /\ stack' = Advance(stack)
    /\ UNCHANGED <<errors, result, phase>>

(* DataflowEngine._execute_steps, the except branch, for an exception of   *)
(* the step of the top frame; under "stop" every enclosing _execute_steps  *)
(* records and re-raises, and execute() records once more                  *)
Raise(etype) ==
    IF policy = "stop"
    THEN /\ errors' = errors
                \o [j \in 1..Len(stack) |->
                       ErrRec(IF j = 1 THEN etype ELSE "ExecutionError",
                              stack[Len(stack) + 1 - j].pc - 1, FALSE, "")]
                \o <<ErrRec("ExecutionError", -1, FALSE, "")>>
         /\ result' = [done |-> TRUE, success |-> FALSE, outputs |-> <<>>]
         /\ phase' = IF persistent THEN "finishing" ELSE "done"
         /\ stack' = <<>>
    ELSE /\ errors' = IF policy = "skip"
                      THEN Append(errors, ErrRec(etype, Top.pc - 1, TRUE, "skipped"))
                      ELSE errors
         /\ stack' = Advance(stack)
         /\ UNCHANGED <<result, phase>>

(* an outputs mapping that assigns nothing *)
ApplyNone(sc, d, mapping, outputs) == sc

(* the outputs mapping of a call step, applied to context d *)
RECURSIVE ApplyOutputs(_, _, _, _)
ApplyOutputs(sc, d, mapping, outputs) ==
    IF mapping = <<>> THEN sc
    ELSE ApplyOutputs(IF DHas(outputs, mapping[1].o)
                      THEN CtxSet(sc, d, mapping[1].var, DGet(outputs, mapping[1].o))
                      ELSE sc,
                      d, Tail(mapping), outputs)

(* whether execute of component id may raise now *)
Outcomes(id) == IF id \in Flaky /\ fails < MaxFails THEN BOOLEAN ELSE {TRUE}

RootEntry(id) == IF DHas(scopes[1].outs, id) THEN DGet(scopes[1].outs, id) ELSE VNone

Exec(id, hash) == [comp |-> id, site |-> Site, hash |-> hash, ok |-> TRUE]

(* history: an execution that raised, and the exception of a step *)
Failed(id, hash) == [Exec(id, hash) EXCEPT !.ok = FALSE]

Raised(etype) == [site |-> Site, type |-> etype]

(* DataflowEngine._execute_source *)
ExecuteSource ==
    /\ AtStep("source")
    /\ LET out == SourceExecute(plan.value) IN
       /\ scopes' = SetComponentOutput(scopes, 1, Cur.id, out)
       /\ last' = [NoLast EXCEPT !.op = "source", !.comp = Cur.id, !.out = out,
                                 !.d = D, !.site = Site]
       /\ hist' = [hist EXCEPT !.execs = @ \cup {Exec(Cur.id, "")}]
    /\ Proceed(Advance(stack))
    /\ UNCHANGED <<plan, plan_inputs, components, definitions, run_id, persistent, policy, run, comps, file, eol, state,
                   loop_path, fails>>

(* DataflowEngine._execute_call *)
ExecuteCall ==
    /\ ~persistent
    /\ AtStep("call")
    /\ LET id == Cur.id
           inputs == ResolveInputs(scopes, D, Cur.inputs)
       IN  \E ok \in Outcomes(id) :
             IF Validate(id, inputs) /\ ok
             THEN LET r == TransformExecute(id, comps, inputs) IN
                  /\ scopes' = SetComponentOutput(
                                   ApplyOutputs(scopes, D, Cur.outputs, r.out),
                                   1, id, r.out)
                  /\ comps' = r.cs
                  /\ last' = [NoLast EXCEPT !.op = "call", !.comp = id,
                                            !.out = r.out, !.d = D, !.site = Site]
                  /\ hist' = [hist EXCEPT !.execs = @ \cup {Exec(id, "")}]
                  /\ Proceed(Advance(stack))
                  /\ UNCHANGED fails
             ELSE /\ Raise("ComponentError")
                  /\ last' = [NoLast EXCEPT !.op = "fail", !.comp = id,
                                            !.prev = RootEntry(id), !.d = D,
                                            !.site = Site]
                  /\ hist' = [hist EXCEPT
                                 !.execs = IF Validate(id, inputs)
                                           THEN @ \cup {Failed(id, "")} ELSE @,
                                 !.raised = @ \cup {Raised("ComponentError")}]
                  /\ fails' = IF Validate(id, inputs) THEN fails + 1 ELSE fails
                  /\ UNCHANGED <<scopes, comps>>
    /\ UNCHANGED <<plan, plan_inputs, components, definitions, run_id, persistent, policy, run, file, eol, state, loop_path>>

(* DataflowEngine._execute_sink: the outputs are stored and the sink is    *)
(* marked finalized on the root context (self.context), _write_return      *)
(* reaches the root from the step's context; an execute that raises leaves *)
(* the cache and the finalization marks alone                              *)
ExecuteSink ==
    /\ AtStep("sink")
    /\ LET id == Cur.id
           inputs == ResolveInputs(scopes, D, Cur.inputs)
           r == CollectorExecute(id, comps, inputs)
           written == IF r.ret # <<>> THEN WriteReturn(scopes, D, r.ret) ELSE scopes
           stored == SetComponentOutput(written, 1, id, r.out)
       IN  \E ok \in Outcomes(id) :
             IF ok
             THEN /\ scopes' = MarkSinkFinalized(stored, 1, id)
                  /\ comps' = r.cs
                  /\ last' = [NoLast EXCEPT !.op = "sink", !.comp = id,
                                            !.out = r.out, !.d = D, !.site = Site]
                  /\ hist' = [hist EXCEPT
                                 !.execs = @ \cup {Exec(id, "")},
                                 !.writes = IF r.ret # <<>> THEN Append(@, r.ret)
                                            ELSE @]
                  /\ Proceed(Advance(stack))
                  /\ UNCHANGED fails
             ELSE /\ Raise("ComponentError")
                  /\ last' = [NoLast EXCEPT !.op = "fail", !.comp = id,
                                            !.prev = RootEntry(id), !.d = D,
                                            !.site = Site]
                  /\ hist' = [hist EXCEPT
                                 !.execs = @ \cup {Failed(id, "")},
                                 !.raised = @ \cup {Raised("ComponentError")}]
                  /\ fails' = fails + 1
                  /\ UNCHANGED <<scopes, comps>>
    /\ UNCHANGED <<plan, plan_inputs, components, definitions, run_id, persistent, policy, run, file, eol, state, loop_path>>

-----------------------------------------------------------------------------
(* PersistentEngine.                                                       *)

Ghost(site, inputs) == [site |-> site, inputs |-> inputs, run |-> run]

CallInputs == ResolveInputs(scopes, D, Cur.inputs)

(* a fingerprint of the input templates as written in the plan *)
RawCallHash == ComputeCallHash(Cur.id, Cur.inputs)

CallHash == ComputeCallHash(Cur.id, CallInputs)

EvRunStart ==
    [NoEvent EXCEPT !.type = "run_start", !.run_id = run_id,
                    !.plan_name = plan.name, !.g = Ghost(NoSite, <<>>)]

EvCallStart ==
    [NoEvent EXCEPT !.type = "call_start", !.component = Cur.id,
                    !.call_hash = CallHash, !.g = Ghost(Site, CallInputs)]

EvCallComplete ==
    [NoEvent EXCEPT !.type = "call_complete", !.component = Cur.id,
                    !.call_hash = CallHash,
                    !.outputs = TransformExecute(Cur.id, comps, CallInputs).out,
                    !.g = Ghost(Site, CallInputs)]

IterItem == Top.coll[Top.i + 1]

IterVar == LoopOf(plan.flow, Top.list).as

IterIndexVar == LoopOf(plan.flow, Top.list).index

(* the key of the iteration the top loop frame is about to enter: the path *)
(* entry is appended before the key is built                               *)
IterKey ==
    GetIterationKey(Append(loop_path, LoopPathEntry(IterVar, Top.i, IterItem)),
                    IterVar, IterItem, Top.i)

EvIterStart ==
    [NoEvent EXCEPT !.type = "iteration_start", !.iteration_key = IterKey,
                    !.loop_var = IterVar, !.index = Top.i,
                    !.g = Ghost(IterSite, <<>>)]

EvIterComplete ==
    [NoEvent EXCEPT !.type = "iteration_complete", !.iteration_key = Top.key,
                    !.g = Ghost(IterSite, <<>>)]

EvRunComplete ==
    [NoEvent EXCEPT !.type = "run_complete", !.success = result.success,
                    !.errors_count = Len(errors), !.g = Ghost(NoSite, <<>>)]

Logged(ev) ==
    /\ file' = LogEvent(file, eol, ev)
    /\ eol' = TRUE

(* _execute_call up to the cache check: a hit applies the cached outputs,  *)
(* a miss logs call_start                                                  *)
AtCallCheck == persistent /\ AtStep("call") /\ Top.sub = ""

CallMiss == AtCallCheck /\ ~DHas(state.completed_calls, CallHash)

PersistentCall ==
    /\ AtCallCheck
    /\ LET id == Cur.id
           h == CallHash
           call == [comp |-> id, inputs |-> ResolveInputs(scopes, D, Cur.inputs),
                    hash |-> h, site |-> Site]
       IN  IF DHas(state.completed_calls, h)
           THEN LET cached == DGet(state.completed_calls, h).d IN
                /\ scopes' = SetComponentOutput(
                                 ApplyOutputs(scopes, D, Cur.outputs, cached),
                                 1, id, cached)
                /\ stack' = Advance(stack)
                /\ last' = [NoLast EXCEPT !.op = "call_hit", !.comp = id,
                                          !.hash = h, !.out = cached, !.d = D,
                                          !.site = Site]
                /\ hist' = [hist EXCEPT !.calls = @ \cup {call}]
                /\ UNCHANGED <<file, eol, state>>
           ELSE /\ Logged(EvCallStart)
                /\ state' = [state EXCEPT !.total_events = @ + 1]
                /\ stack' = [stack EXCEPT ![Len(stack)].sub = "exec"]
                /\ last' = [NoLast EXCEPT !.op = "call_start", !.comp = id,
                                          !.hash = h, !.d = D, !.site = Site]
                /\ hist' = [hist EXCEPT !.calls = @ \cup {call}]
                /\ UNCHANGED scopes
    /\ UNCHANGED <<plan, plan_inputs, components, definitions, run_id, persistent, policy, run, comps, errors, result, phase,
                   loop_path, fails>>

(* _execute_call from the try block on: validate, execute, log             *)
(* call_complete, insert into the cache, map the outputs                   *)
(* a try block entered whether or not call_start was logged *)
AtCallRunEarly == persistent /\ AtStep("call")

AtCallRun == persistent /\ AtStep("call") /\ Top.sub = "exec"

CallValid == AtCallRun /\ Validate(Cur.id, CallInputs)

PersistentCallRun ==
    /\ AtCallRun
    /\ LET id == Cur.id
           h == CallHash
       IN  \E ok \in Outcomes(id) :
             IF CallValid /\ ok
             THEN LET r == TransformExecute(id, comps, CallInputs) IN
                  /\ Logged(EvCallComplete)
                  /\ state' = [state EXCEPT
                                  !.completed_calls = DSet(@, h, VDict(r.out)),
                                  !.total_events = @ + 1]
                  /\ scopes' = SetComponentOutput(
                                   ApplyOutputs(scopes, D, Cur.outputs, r.out),
                                   1, id, r.out)
                  /\ comps' = r.cs
                  /\ last' = [NoLast EXCEPT !.op = "call", !.comp = id,
                                            !.hash = h, !.out = r.out, !.d = D,
                                            !.site = Site]
                  /\ hist' = [hist EXCEPT !.execs = @ \cup {Exec(id, h)}]
                  /\ Proceed(Advance(stack))
                  /\ UNCHANGED fails
             ELSE /\ Raise(IF CallValid THEN "RuntimeError" ELSE "ComponentError")
                  /\ last' = [NoLast EXCEPT !.op = "fail", !.comp = id,
                                            !.hash = h, !.prev = RootEntry(id),
                                            !.d = D, !.site = Site]
                  /\ hist' = [hist EXCEPT
                                 !.execs = IF CallValid
                                           THEN @ \cup {Failed(id, h)} ELSE @,
                                 !.raised = @ \cup
                                    {Raised(IF CallValid THEN "RuntimeError"
                                            ELSE "ComponentError")}]
                  /\ fails' = IF CallValid THEN fails + 1 ELSE fails
                  /\ UNCHANGED <<scopes, comps, file, eol, state>>
    /\ UNCHANGED <<plan, plan_inputs, components, definitions, run_id, persistent, policy, run, loop_path>>

-----------------------------------------------------------------------------
(* Loops.                                                                  *)

Iterable(v) == v.t \in {"list", "str", "dict"}

(* what enumerate(collection) yields *)
Items(v) ==
    CASE v.t = "list" -> v.l
      [] v.t = "str" -> [i \in 1..Len(v.s) |-> VStr(Ch(v.s, i))]
      [] v.t = "dict" -> [i \in 1..Len(v.d) |-> VStr(v.d[i].k)]
      [] OTHER -> <<>>

(* _execute_loop of both engines up to the for statement *)
ExecuteLoop ==
    /\ AtStep("loop")
    /\ LET collection == Resolve(scopes, D, VStr("{" \o Cur.over \o "}")) IN
       IF collection = VNone \/ ~Iterable(collection)
       THEN /\ Raise("ExecutionError")
            /\ last' = [NoLast EXCEPT !.op = "loop_fail", !.d = D, !.site = Site]
            /\ hist' = [hist EXCEPT !.raised = @ \cup {Raised("ExecutionError")}]
       ELSE /\ Proceed(Append(stack,
                   [Frame("loop", Top.list \o <<Top.pc, 0>>)
                       EXCEPT !.pc = 0, !.coll = Items(collection)]))
            /\ last' = [NoLast EXCEPT !.op = "loop", !.d = D, !.site = Site]
            /\ UNCHANGED hist
    /\ UNCHANGED <<plan, plan_inputs, components, definitions, run_id, persistent, policy, run, scopes, comps, file, eol,
                   state, loop_path, fails>>

AtIteration ==
    /\ phase = "running"
    /\ stack # <<>>
    /\ Top.kind = "loop"
    /\ Top.pc = 0
    /\ Top.i < Len(Top.coll)

(* loop_vars of _execute_loop *)
LoopVars ==
    IF IterIndexVar # ""
    THEN DSet(<<KV(IterVar, IterItem)>>, IterIndexVar, VInt(Top.i))
    ELSE <<KV(IterVar, IterItem)>>

(* DataflowEngine._execute_loop, the head of one iteration *)
IterationBegin ==
    /\ ~persistent
    /\ AtIteration
    /\ scopes' = Child(scopes, LoopVars)
    /\ stack' = [stack EXCEPT ![Len(stack)].pc = 1]
    /\ last' = [NoLast EXCEPT !.op = "iter", !.d = D + 1, !.site = IterSite]
    /\ hist' = [hist EXCEPT !.iters = @ \cup
                   {[site |-> IterSite, key |-> "", skipped |-> FALSE]}]
    /\ UNCHANGED <<plan, plan_inputs, components, definitions, run_id, persistent, policy, run, comps, errors, result, phase,
                   file, eol, state, loop_path, fails>>

IterSkip == persistent /\ AtIteration /\ IterKey \in state.completed_iterations

IterRun == persistent /\ AtIteration /\ IterKey \notin state.completed_iterations

(* PersistentEngine._execute_loop, the head of one iteration: skip it when *)
(* its key is completed, else log iteration_start and enter                *)
PersistentIterationBegin ==
    /\ persistent
    /\ AtIteration
    /\ IF IterSkip
       THEN /\ stack' = [stack EXCEPT ![Len(stack)].i = @ + 1]
            /\ last' = [NoLast EXCEPT !.op = "iter_skip", !.hash = IterKey,
                                      !.d = D, !.site = IterSite]
            /\ hist' = [hist EXCEPT !.iters = @ \cup
                           {[site |-> IterSite, key |-> IterKey, skipped |-> TRUE]}]
            /\ UNCHANGED <<scopes, file, eol, state, loop_path>>
       ELSE /\ Logged(EvIterStart)
            /\ state' = [state EXCEPT !.total_events = @ + 1]
            /\ loop_path' = Append(loop_path, LoopPathEntry(IterVar, Top.i, IterItem))
            /\ scopes' = Child(scopes, LoopVars)
            /\ stack' = [stack EXCEPT ![Len(stack)].pc = 1,
                                      ![Len(stack)].key = IterKey]
            /\ last' = [NoLast EXCEPT !.op = "iter", !.hash = IterKey,
                                      !.d = D + 1, !.site = IterSite]
            /\ hist' = [hist EXCEPT !.iters = @ \cup
                           {[site |-> IterSite, key |-> IterKey, skipped |-> FALSE]}]
    /\ UNCHANGED <<plan, plan_inputs, components, definitions, run_id, persistent, policy, run, comps, errors, result, phase,
                   fails>>

AtIterationEnd ==
    /\ phase = "running"
    /\ stack # <<>>
    /\ Top.kind = "loop"
    /\ Top.pc > Len(CurSteps)

(* DataflowEngine._execute_loop, after the inner steps: the child context  *)
(* is dropped                                                              *)
IterationEnd ==
    /\ ~persistent
    /\ AtIterationEnd
    /\ scopes' = SubSeq(scopes, 1, D - 1)
    /\ stack' = [stack EXCEPT ![Len(stack)].pc = 0, ![Len(stack)].i = @ + 1]
    /\ last' = [NoLast EXCEPT !.op = "iter_end", !.d = D - 1, !.site = IterSite]
    /\ UNCHANGED <<plan, plan_inputs, components, definitions, run_id, persistent, policy, run, comps, errors, result, phase,
                   file, eol, state, loop_path, fails, hist>>

(* PersistentEngine._execute_loop, after the inner steps: log              *)
(* iteration_complete, add the key, pop the path entry                     *)
PersistentIterationEnd ==
    /\ persistent
    /\ AtIterationEnd
    /\ Logged(EvIterComplete)
    /\ state' = [state EXCEPT !.completed_iterations = @ \cup {Top.key},
                              !.total_events = @ + 1]
    /\ loop_path' = SubSeq(loop_path, 1, Len(loop_path) - 1)
    /\ scopes' = SubSeq(scopes, 1, D - 1)
    /\ stack' = [stack EXCEPT ![Len(stack)].pc = 0, ![Len(stack)].i = @ + 1,
                              ![Len(stack)].key = ""]
    /\ last' = [NoLast EXCEPT !.op = "iter_end", !.hash = Top.key, !.d = D - 1,
                              !.site = IterSite]
    /\ UNCHANGED <<plan, plan_inputs, components, definitions, run_id, persistent, policy, run, comps, errors, result, phase,
                   fails, hist>>

(* _execute_loop returns: the loop step is done *)
LoopExit ==
    /\ phase = "running"
    /\ stack # <<>>
    /\ Top.kind = "loop"
    /\ Top.pc = 0
    /\ Top.i >= Len(Top.coll)
    /\ stack' = Advance(SubSeq(stack, 1, Len(stack) - 1))
    /\ last' = [NoLast EXCEPT !.op = "loop_exit", !.d = D]
    /\ UNCHANGED <<plan, plan_inputs, components, definitions, run_id, persistent, policy, run, scopes, comps, errors, result,
                   phase, file, eol, state, loop_path, fails, hist>>

-----------------------------------------------------------------------------
(* Conditionals.                                                           *)

(* a truth test that is bool(value) for every value *)
IsTruthyPlain(v) ==
    CASE v.t = "str" -> v.s # ""
      [] v.t = "int" -> v.s # "0"
      [] v.t = "bool" -> v.s = "True"
      [] v.t = "none" -> FALSE
      [] v.t = "list" -> v.l # <<>>
      [] v.t = "dict" -> v.d # <<>>
      [] OTHER -> TRUE

(* DataflowEngine._is_truthy *)
IsTruthy(v) ==
    IF v.t = "str" THEN Lower(v.s) \notin {"false", "no", "0", ""}
    ELSE CASE v.t = "int" -> v.s # "0"
           [] v.t = "bool" -> v.s = "True"
           [] v.t = "none" -> FALSE
           [] v.t = "list" -> v.l # <<>>
           [] v.t = "dict" -> v.d # <<>>
           [] OTHER -> TRUE

(* history: the branch a conditional step took *)
Branch(cond, branch) == [site |-> Site, cond |-> cond, branch |-> branch]

(* DataflowEngine._execute_conditional up to the call of _execute_steps:   *)
(* the branch runs in the context of the conditional                       *)
ExecuteConditional ==
    /\ AtStep("conditional")
    /\ LET condition == Resolve(scopes, D, VStr(Cur.cif)) IN
       IF IsTruthy(condition)
       THEN /\ stack' = Append(stack, Frame("steps", Top.list \o <<Top.pc, 1>>))
            /\ hist' = [hist EXCEPT !.branches = @ \cup {Branch(condition, "then")}]
       ELSE IF Cur.els # <<>>
       THEN /\ stack' = Append(stack, Frame("steps", Top.list \o <<Top.pc, 2>>))
            /\ hist' = [hist EXCEPT !.branches = @ \cup {Branch(condition, "else")}]
       ELSE /\ stack' = Advance(stack)
            /\ hist' = [hist EXCEPT !.branches = @ \cup {Branch(condition, "none")}]
    /\ last' = [NoLast EXCEPT !.op = "conditional", !.d = D, !.site = Site]
    /\ UNCHANGED <<plan, plan_inputs, components, definitions, run_id, persistent, policy, run, scopes, comps, errors, result,
                   phase, file, eol, state, loop_path, fails>>

(* _execute_conditional: the _execute_steps of the branch has returned *)
ConditionalExit ==
    /\ phase = "running"
    /\ Len(stack) > 1
    /\ Top.kind = "steps"
    /\ Top.pc > Len(CurSteps)
    /\ stack' = Advance(SubSeq(stack, 1, Len(stack) - 1))
    /\ last' = [NoLast EXCEPT !.op = "conditional_exit", !.d = D]
    /\ UNCHANGED <<plan, plan_inputs, components, definitions, run_id, persistent, policy, run, scopes, comps, errors, result,
                   phase, file, eol, state, loop_path, fails, hist>>

-----------------------------------------------------------------------------
(* execute(), crashes and restarts.                                        *)

SinkIds == {"k"}

(* DataflowEngine._collect_outputs: the root cache entries of the sinks *)
RECURSIVE CollectFrom(_)
CollectFrom(outs) ==
    IF outs = <<>> THEN <<>>
    ELSE IF outs[1].k \in SinkIds /\ outs[1].v.d # <<>>
         THEN <<outs[1]>> \o CollectFrom(Tail(outs))
         ELSE CollectFrom(Tail(outs))

CollectOutputs == CollectFrom(scopes[1].outs)

Unrecovered(errs) == {j \in 1..Len(errs) : ~errs[j].recovered}

Fresh ==
    /\ stack' = <<>>
    /\ scopes' = <<>>
    /\ comps' = FreshComps
    /\ errors' = <<>>
    /\ result' = NoResult
    /\ state' = FreshState
    /\ loop_path' = <<>>
    /\ last' = NoLast
    /\ hist' = FreshHist

(* execute() up to the call of _execute_steps: the persistent engine loads *)
(* the state file and logs run_start when nothing was loaded; validate()   *)
(* comes next, and execute() raises ValidationError when it finds errors   *)
Execute ==
    /\ phase = "new"
    /\ IF ValidatePlan(plan) # {}
       THEN /\ phase' = "invalid"
            /\ stack' = <<>>
            /\ scopes' = <<>>
            /\ last' = [NoLast EXCEPT !.op = "ValidationError"]
       ELSE /\ phase' = "running"
            /\ stack' = <<Frame("steps", <<>>)>>
            /\ scopes' = <<NewContext(plan.inputs)>>
            /\ last' = [NoLast EXCEPT !.op = "execute"]
    /\ comps' = FreshComps
    /\ errors' = <<>>
    /\ result' = NoResult
    /\ loop_path' = <<>>
    /\ hist' = FreshHist
    /\ IF persistent
       THEN LET loaded == LoadExistingState(file) IN
            IF loaded.total_events > 0
            THEN state' = loaded /\ UNCHANGED <<file, eol>>
            ELSE /\ Logged(EvRunStart)
                 /\ state' = [loaded EXCEPT !.total_events = @ + 1]
       ELSE UNCHANGED <<file, eol, state>>
    /\ UNCHANGED <<plan, plan_inputs, components, definitions, run_id, persistent, policy, run, fails>>

(* execute() after _execute_steps returned: the ExecutionResult *)
Finish ==
    /\ phase = "running"
    /\ Len(stack) = 1
    /\ Top.pc > Len(CurSteps)
    /\ result' = [done |-> TRUE, success |-> Unrecovered(errors) = {},
                  outputs |-> CollectOutputs]
    /\ phase' = IF persistent THEN "finishing" ELSE "done"
    /\ stack' = <<>>
    /\ last' = [NoLast EXCEPT !.op = "finish"]
    /\ UNCHANGED <<plan, plan_inputs, components, definitions, run_id, persistent, policy, run, scopes, comps, errors, file,
                   eol, state, loop_path, fails, hist>>

(* PersistentEngine.execute after super().execute(): log run_complete *)
RunComplete ==
    /\ phase = "finishing"
    /\ Logged(EvRunComplete)
    /\ state' = [state EXCEPT !.total_events = @ + 1]
    /\ phase' = "done"
    /\ last' = [NoLast EXCEPT !.op = "run_complete"]
    /\ UNCHANGED <<plan, plan_inputs, components, definitions, run_id, persistent, policy, run, stack, scopes, comps, errors,
                   result, loop_path, fails, hist>>

(* the event the persistent engine is about to append, if any *)
PendingWrites ==
    IF ~persistent THEN {}
    ELSE IF phase = "new"
         THEN IF LoadExistingState(file).total_events = 0 THEN {EvRunStart} ELSE {}
    ELSE IF phase = "finishing" THEN {EvRunComplete}
    ELSE IF CallMiss THEN {EvCallStart}
    ELSE IF CallValid THEN {EvCallComplete}
    ELSE IF IterRun THEN {EvIterStart}
    ELSE IF AtIterationEnd THEN {EvIterComplete}
    ELSE {}

(* the process dies between two writes: the file keeps what was written,   *)
(* everything in memory is gone                                            *)
Crash ==
    /\ persistent
    /\ phase \in {"running", "finishing"}
    /\ phase' = "crashed"
    /\ Fresh
    /\ UNCHANGED <<plan, plan_inputs, components, definitions, run_id, persistent, policy, run, file, eol, fails>>

(* the process dies inside the write of _log_event: a proper prefix of the *)
(* line reaches the file, or all of it but the newline                     *)
CrashInWrite ==
    /\ \E ev \in PendingWrites, full \in BOOLEAN :
          file' = IF full THEN LogEvent(file, eol, ev) ELSE LogCut(file, eol, ev)
    /\ eol' = FALSE
    /\ phase' = "crashed"
    /\ Fresh
    /\ UNCHANGED <<plan, plan_inputs, components, definitions, run_id, persistent, policy, run, fails>>

(* a new process, a new PersistentEngine with the same run_id, plan and    *)
(* output_dir                                                              *)
Restart ==
    /\ persistent
    /\ phase \in {"crashed", "done", "invalid"}
    /\ run < MaxRuns
    /\ run' = run + 1
    /\ phase' = "new"
    /\ Fresh
    /\ UNCHANGED <<plan, plan_inputs, components, definitions, run_id, persistent, policy, file, eol, fails>>

Init ==
    /\ plan \in Plans
    /\ plan_inputs = plan.inputs
    /\ definitions = RegisteredDefinitions
    /\ run_id = RunId
    /\ components = InstantiateComponents(plan.components, plan.inputs, GetInputSchema(plan))
    /\ persistent \in BOOLEAN
    /\ policy \in Policies
    /\ phase = "new"
    /\ run = 1
    /\ stack = <<>>
    /\ scopes = <<>>
    /\ comps = FreshComps
    /\ errors = <<>>
    /\ result = NoResult
    /\ file = <<>>
    /\ eol = TRUE
    /\ state = FreshState
    /\ loop_path = <<>>
    /\ fails = 0
    /\ last = NoLast
    /\ hist = FreshHist

Next ==
    \/ Execute
    \/ ExecuteSource
    \/ ExecuteCall
    \/ PersistentCall
    \/ PersistentCallRun
    \/ ExecuteSink
    \/ ExecuteLoop
    \/ IterationBegin
    \/ PersistentIterationBegin
    \/ IterationEnd
    \/ PersistentIterationEnd
    \/ LoopExit
    \/ ExecuteConditional
    \/ ConditionalExit
    \/ Finish
    \/ RunComplete
    \/ Crash
    \/ CrashInWrite
    \/ Restart

Spec == Init /\ [][Next]_vars

-----------------------------------------------------------------------------
(* One output_dir used by more than one run: after a process ended, a new  *)
(* PersistentEngine with another run_id, or with another plan, is given    *)
(* the same output_dir.                                                    *)

OtherRunId == "r2"

(* another plan with the calls and the loop of the first *)
OtherPlans(p) == IF p.name = "loop" THEN {PlanSiblings} ELSE {}

RestartOther ==
    /\ persistent
    /\ phase \in {"crashed", "done"}
    /\ run < MaxRuns
    /\ \E id \in {RunId, OtherRunId}, p \in {plan} \cup OtherPlans(plan) :
          /\ id # run_id \/ p # plan
          /\ run_id' = id
          /\ plan' = p
          /\ plan_inputs' = p.inputs
          /\ components' = InstantiateComponents(p.components, p.inputs,
                                                 GetInputSchema(p))
    /\ run' = run + 1
    /\ phase' = "new"
    /\ Fresh
    /\ UNCHANGED <<definitions, persistent, policy, file, eol, fails>>

NextShared == Next \/ RestartOther

SpecShared == Init /\ [][NextShared]_vars

(***************************************************************************)
(* The "return" destination on its own: a chain of contexts, root first,   *)
(* and write(data, to="return") issued from any context of the chain.      *)
(***************************************************************************)
MaxDepth == 3

MaxWrites == 4

(* the dicts handed to write(); they share the key "k" *)
ReturnData ==
    { <<KV("k", VInt(1))>>,
      <<KV("k", VInt(2))>>,
      <<KV("j", VInt(1)), KV("k", VInt(3))>> }

InitReturn ==
    /\ plan = PlanLoop
    /\ plan_inputs = plan.inputs
    /\ definitions = RegisteredDefinitions
    /\ run_id = RunId
    /\ components = InstantiateComponents(plan.components, plan.inputs, GetInputSchema(plan))
    /\ persistent = FALSE
    /\ policy = "stop"
    /\ phase = "context"
    /\ run = 1
    /\ stack = <<>>
    /\ scopes = <<NewContext(<<>>)>>
    /\ comps = FreshComps
    /\ errors = <<>>
    /\ result = NoResult
    /\ file = <<>>
    /\ eol = TRUE
    /\ state = FreshState
    /\ loop_path = <<>>
    /\ fails = 0
    /\ last = NoLast
    /\ hist = FreshHist

(* ExecutionContext.child on the innermost context *)
CtxChild ==
    /\ phase = "context"
    /\ Len(scopes) < MaxDepth
    /\ scopes' = Child(scopes, <<>>)
    /\ last' = [NoLast EXCEPT !.op = "child", !.d = Len(scopes) + 1]
    /\ UNCHANGED <<plan, plan_inputs, components, definitions, run_id, persistent, policy, phase, run, stack, comps, errors,
                   result, file, eol, state, loop_path, fails, hist>>

(* the innermost context goes out of use *)
CtxDrop ==
    /\ phase = "context"
    /\ Len(scopes) > 1
    /\ scopes' = SubSeq(scopes, 1, Len(scopes) - 1)
    /\ last' = [NoLast EXCEPT !.op = "drop", !.d = Len(scopes) - 1]
    /\ UNCHANGED <<plan, plan_inputs, components, definitions, run_id, persistent, policy, phase, run, stack, comps, errors,
                   result, file, eol, state, loop_path, fails, hist>>

(* ExecutionContext.write(data, to="return") on the context at depth d *)
CtxWrite ==
    /\ phase = "context"
    /\ Len(hist.writes) < MaxWrites
    /\ \E d \in 1..Len(scopes), data \in ReturnData :
          /\ scopes' = WriteReturn(scopes, d, data)
          /\ hist' = [hist EXCEPT !.writes = Append(@, data)]
          /\ last' = [NoLast EXCEPT !.op = "write", !.d = d]
    /\ UNCHANGED <<plan, plan_inputs, components, definitions, run_id, persistent, policy, phase, run, stack, comps, errors,
                   result, file, eol, state, loop_path, fails>>

NextReturn ==
    \/ CtxChild
    \/ CtxDrop
    \/ CtxWrite

SpecReturn == InitReturn /\ [][NextReturn]_vars

(***************************************************************************)
(* ExecutionContext.get and resolve on their own: a chain of contexts over *)
(* a root that holds plan inputs and component outputs, variables set in   *)
(* any context of the chain, and resolve applied from any depth.  The sink *)
(* "k" is registered on the root and has not run.  (The plans of Spec      *)
(* never read <sink>.items, so the gets of its steps leave _warned_sinks   *)
(* as they are.)                                                           *)
(***************************************************************************)
MaxWarnings == 2

(* the outputs of the component "c" in the root cache *)
OutputsOfC ==
    << KV("y", VList(<<VDict(<<KV("z", VInt(1))>>), VInt(0)>>)),
       KV("d", VDict(<<KV("z", VInt(7))>>)),
       KV("e", VList(<<>>)),
       KV("f", VBool(FALSE)) >>

(* the root: an input "v", the outputs of "c", and a component whose id    *)
(* "n" is also used as a variable name                                     *)
RootContext ==
    [NewContext(<<KV("v", VList(ItemsAB))>>) EXCEPT
        !.outs = << KV("c", VDict(OutputsOfC)),
                    KV("n", VDict(<<KV("y", VInt(1))>>)) >>]

(* the values ctx.set gives to the variable "n" *)
BindValues == {VInt(0), VStr("s")}

(* templates as their parts, a literal text or a reference; the string     *)
(* handed to resolve is TemplateOf(parts)                                  *)
Lit(text) == [ref |-> FALSE, s |-> text]

Ref(name) == [ref |-> TRUE, s |-> name]

PartLists ==
    { <<Ref("n")>>, <<Ref("n.y")>>, <<Ref("v")>>, <<Ref("c.y")>>,
      <<Ref("c.y[0].z")>>, <<Ref("c.y[1]")>>, <<Ref("c.y[5]")>>,
      <<Ref("c.d.z")>>, <<Ref("c.e")>>, <<Ref("c.f")>>, <<Ref("nope")>>,
      <<Ref("k.items")>>, <<Lit("plain")>>,
      <<Lit("a"), Ref("n"), Lit("-"), Ref("nope"), Ref("c.y[1]")>>,
      <<Ref("c.f"), Lit("/"), Ref("c.y")>>,
      <<Lit("a"), Ref("n")>>, <<Ref("nope"), Lit("!")>>,
      <<Lit("x"), Ref("k.items"), Ref("k.items")>> }

RECURSIVE TemplateOf(_)
TemplateOf(parts) ==
    IF parts = <<>> THEN ""
    ELSE (IF parts[1].ref THEN "{" \o parts[1].s \o "}" ELSE parts[1].s)
         \o TemplateOf(Tail(parts))

(* the values handed to resolve: the templates, a list and a dict holding  *)
(* templates, values that are no strings                                   *)
ResolveArgs ==
    {VStr(TemplateOf(parts)) : parts \in PartLists}
    \cup { VList(<<VStr("{c.y[1]}"), VStr("a{n}"), VInt(3)>>),
           VDict(<<KV("p", VStr("{c.e}")), KV("q", VStr("{nope}!"))>>),
           VInt(5), VBool(TRUE), VNone }

(* the names of the placeholders resolve looks up in a value, in order *)
RECURSIVE Lookups(_)
Lookups(v) ==
    CASE v.t = "str" ->
            LET p == FindFrom(v.s, "{", 1)
                q == IF p = 0 THEN 0 ELSE FindFrom(v.s, "}", p + 1)
            IN  IF q = 0 THEN <<>>
                ELSE IF q = p + 1
                THEN Lookups(VStr(SubSeq(v.s, p + 1, Len(v.s))))
                ELSE <<SubSeq(v.s, p + 1, q - 1)>>
                     \o Lookups(VStr(SubSeq(v.s, q + 1, Len(v.s))))
      [] v.t = "list" ->
            IF v.l = <<>> THEN <<>>
            ELSE Lookups(v.l[1]) \o Lookups(VList(Tail(v.l)))
      [] v.t = "dict" ->
            IF v.d = <<>> THEN <<>>
            ELSE Lookups(v.d[1].v) \o Lookups(VDict(Tail(v.d)))
      [] OTHER -> <<>>

(* ExecutionContext.get(name) from depth d: the depths whose context       *)
(* prints the finalization warning; a context asks its parent only when    *)
(* neither it nor its cache knows the leading name                         *)
RECURSIVE Warns(_, _, _)
Warns(sc, d, name) ==
    LET dot == FindFrom(name, ".", 1) IN
    IF StrHas(name, "[") \/ dot = 0 THEN {}
    ELSE LET p0 == SubSeq(name, 1, dot - 1)
             p1 == SubSeq(name, dot + 1, Len(name))
         IN  (IF /\ p1 = "items"
                 /\ p0 \in SinkIds
                 /\ ~IsSinkFinalized(sc, d, p0)
                 /\ p0 \notin sc[d].warned
              THEN {d} ELSE {})
             \cup (IF /\ CtxGet(sc, d, p0) = VNone
                      /\ ~DHas(sc[d].outs, p0)
                      /\ d > 1
                   THEN Warns(sc, d - 1, name) ELSE {})

(* the contexts after the lookups of a resolve, and the warnings printed *)
RECURSIVE Warned(_, _, _, _)
Warned(sc, d, names, printed) ==
    IF names = <<>> THEN [sc |-> sc, printed |-> printed]
    ELSE LET w == Warns(sc, d, names[1])
             id == SubSeq(names[1], 1, FindFrom(names[1], ".", 1) - 1)
         IN  Warned([j \in 1..Len(sc) |->
                        IF j \in w THEN [sc[j] EXCEPT !.warned = @ \cup {id}]
                        ELSE sc[j]],
                    d, Tail(names),
                    printed \o [j \in 1..Cardinality(w) |-> id])

InitContext ==
    /\ plan = PlanLoop
    /\ plan_inputs = plan.inputs
    /\ definitions = RegisteredDefinitions
    /\ run_id = RunId
    /\ components = InstantiateComponents(plan.components, plan.inputs, GetInputSchema(plan))
    /\ persistent = FALSE
    /\ policy = "stop"
    /\ phase = "context"
    /\ run = 1
    /\ stack = <<>>
    /\ scopes = <<RootContext>>
    /\ comps = FreshComps
    /\ errors = <<>>
    /\ result = NoResult
    /\ file = <<>>
    /\ eol = TRUE
    /\ state = FreshState
    /\ loop_path = <<>>
    /\ fails = 0
    /\ last = NoLast
    /\ hist = FreshHist

(* ExecutionContext.set of the variable "n" on the context at depth d *)
CtxBind ==
    /\ phase = "context"
    /\ \E d \in 1..Len(scopes), val \in BindValues :
          /\ scopes' = CtxSet(scopes, d, "n", val)
          /\ last' = [NoLast EXCEPT !.op = "set", !.d = d]
    /\ UNCHANGED <<plan, plan_inputs, components, definitions, run_id, persistent, policy, phase, run, stack, comps, errors,
                   result, file, eol, state, loop_path, fails, hist>>

(* ExecutionContext.resolve(v) on the context at depth d: last keeps the   *)
(* argument (a template in hash, any other value in out) and the result    *)
CtxResolve ==
    /\ phase = "context"
    /\ \E d \in 1..Len(scopes), v \in ResolveArgs :
          LET w == Warned(scopes, d, Lookups(v), <<>>) IN
          /\ Len(hist.warnings) + Len(w.printed) <= MaxWarnings
          /\ scopes' = w.sc
          /\ hist' = [hist EXCEPT !.warnings = @ \o w.printed]
          /\ last' = [NoLast EXCEPT
                         !.op = "resolve", !.d = d,
                         !.hash = IF v.t = "str" THEN v.s ELSE "",
                         !.out = IF v.t = "str" THEN <<>> ELSE <<KV("arg", v)>>,
                         !.prev = Resolve(scopes, d, v)]
    /\ UNCHANGED <<plan, plan_inputs, components, definitions, run_id, persistent, policy, phase, run, stack, comps, errors,
                   result, file, eol, state, loop_path, fails>>

NextContext ==
    \/ CtxChild
    \/ CtxDrop
    \/ CtxBind
    \/ CtxResolve

SpecContext == InitContext /\ [][NextContext]_vars

(***************************************************************************)
(* load_plan and set_inputs on an engine that has not executed: the plan   *)
(* declares inputs, and the config of its components refers to them.       *)
(***************************************************************************)
(* an engine before load_plan: self.plan = {} *)
NoPlan ==
    [name |-> "", value |-> <<>>, components |-> <<>>, inputs |-> <<>>,
     flow |-> <<>>, declared |-> <<>>]

(* n has the default 3, z the default 0, m is declared by its type alone;  *)
(* the config of t refers to them and to w, which is not declared; u has   *)
(* no config                                                               *)
PlanInputs ==
    [name |-> "inputs", value |-> ItemsAB, inputs |-> <<>>,
     declared |-> <<KV("n", VInt(3)), KV("m", VNone), KV("z", VInt(0))>>,
     components |->
        << [id |-> "t", known |-> TRUE,
            config |-> << KV("threshold", VStr("{$inputs.n}")),
                          KV("label", VStr("run-{$inputs.n}-{$inputs.m}")),
                          KV("zero", VStr("{$inputs.z}")),
                          KV("mode", VStr("{$inputs.m}")),
                          KV("opts", VList(<<VStr("{$inputs.w}"), VInt(1),
                                             VStr("{n}")>>)),
                          KV("nested", VDict(<<KV("tag", VStr("{$inputs.w}!"))>>)) >>],
           Comp("u", TRUE) >>,
     flow |-> << CallStep("t", <<In("x", "a")>>, <<>>) >>]

(* the arguments of set_inputs *)
InputValues ==
    { <<KV("n", VInt(5))>>, <<KV("n", VStr("5"))>>, <<KV("n", VNone)>>,
      <<KV("m", VStr("x"))>>, <<KV("z", VInt(7)), KV("m", VStr("y"))>>,
      <<KV("w", VList(<<>>))>>, <<>> }

InitInputs ==
    /\ plan = NoPlan
    /\ plan_inputs = <<>>
    /\ components = <<>>
    /\ definitions = RegisteredDefinitions
    /\ run_id = RunId
    /\ persistent = FALSE
    /\ policy = "stop"
    /\ phase = "engine"
    /\ run = 1
    /\ stack = <<>>
    /\ scopes = <<>>
    /\ comps = FreshComps
    /\ errors = <<>>
    /\ result = NoResult
    /\ file = <<>>
    /\ eol = TRUE
    /\ state = FreshState
    /\ loop_path = <<>>
    /\ fails = 0
    /\ last = NoLast
    /\ hist = FreshHist

(* DataflowEngine.load_plan (the plan has no error_handling section) *)
LoadPlan ==
    /\ phase = "engine"
    /\ plan' = PlanInputs
    /\ components' = InstantiateComponents(plan'.components, plan_inputs,
                                           GetInputSchema(plan'))
    /\ last' = [NoLast EXCEPT !.op = "load_plan"]
    /\ UNCHANGED <<plan_inputs, definitions, run_id, persistent, policy, phase, run, stack, scopes,
                   comps, errors, result, file, eol, state, loop_path, fails,
                   hist>>

(* set_inputs that updates the inputs and keeps the components it has *)
SetInputsOnly ==
    /\ phase = "engine"
    /\ \E values \in InputValues :
          /\ plan_inputs' = DUpdate(plan_inputs, values)
          /\ last' = [NoLast EXCEPT !.op = "set_inputs", !.out = values]
    /\ UNCHANGED <<plan, components, definitions, run_id, persistent, policy, phase, run, stack,
                   scopes, comps, errors, result, file, eol, state, loop_path,
                   fails, hist>>

(* DataflowEngine.set_inputs *)
SetInputs ==
    /\ phase = "engine"
    /\ \E values \in InputValues :
          /\ plan_inputs' = DUpdate(plan_inputs, values)
          /\ IF plan # NoPlan
             THEN components' = InstantiateComponents(plan.components, plan_inputs',
                                                      GetInputSchema(plan))
             ELSE UNCHANGED components
          /\ last' = [NoLast EXCEPT !.op = "set_inputs", !.out = values]
    /\ UNCHANGED <<plan, definitions, run_id, persistent, policy, phase, run, stack, scopes, comps,
                   errors, result, file, eol, state, loop_path, fails, hist>>

(* DataflowEngine.execute up to the creation of the root context: the     *)
(* initial variables are the user-supplied inputs                          *)
ExecuteContext ==
    /\ phase = "engine"
    /\ plan # NoPlan
    /\ scopes' = <<NewContext(plan_inputs)>>
    /\ last' = [NoLast EXCEPT !.op = "context"]
    /\ UNCHANGED <<plan, plan_inputs, components, definitions, run_id, persistent, policy, phase, run,
                   stack, comps, errors, result, file, eol, state, loop_path,
                   fails, hist>>

NextInputs ==
    \/ LoadPlan
    \/ SetInputs
    \/ ExecuteContext

SpecInputs == InitInputs /\ [][NextInputs]_vars

(***************************************************************************)
(* Composite instances of one registered type, built by engines of the     *)
(* same process with different configs, executed one after another.        *)
(***************************************************************************)
(* the configs of the composite instances, without the _composite_type key *)
InstanceConfigs ==
    { <<>>, <<KV("model", VStr("x"))>>, <<KV("model", VStr("y"))>>,
      <<KV("temp", VInt(2))>>, <<KV("temp", VInt(3)), KV("model", VStr("x"))>>,
      <<KV("other", VInt(9))>> }

(* the inputs given to the composite *)
CompositeInputs == { <<>>, <<KV("q", VStr("a"))>>, <<KV("q", VStr("b"))>> }

(* "Merge composite config into component configs" for one component: a    *)
(* config is added where there is none, and each key of the instance that  *)
(* the component's config has takes the instance's value                   *)
RECURSIVE Override(_, _)
Override(config, instance) ==
    IF instance = <<>> THEN config
    ELSE Override(IF Ch(instance[1].k, 1) # "_" /\ DHas(config, instance[1].k)
                  THEN DSet(config, instance[1].k, instance[1].v)
                  ELSE config,
                  Tail(instance))

MergeConfig(defs, instance) ==
    [i \in 1..Len(defs) |->
        [id |-> defs[i].id, known |-> defs[i].known,
         config |-> Override(ConfigOf(defs[i]), instance)]]

(* the context of the calling engine at the composite's call step: a root  *)
(* with variables and cached outputs, and the scope of a loop iteration    *)
OuterContext ==
    Child(<< [NewContext(<<KV("secret", VStr("S")), KV("r", VStr("R"))>>)
                 EXCEPT !.outs = <<KV("bare", VDict(<<KV("y", VStr("B"))>>))>>,
                        !.returns = <<KV("k", VInt(1))>>,
                        !.finalized = {"k"}] >>,
          <<KV("q", VStr("Q"))>>)

(* an internal context that is a child of the caller's *)
InternalContextShared(inputs) == Child(OuterContext, inputs)

(* the root context of the internal engine: execute() builds it from the   *)
(* inputs set_inputs gave it                                               *)
InternalContext(inputs) == <<NewContext(inputs)>>

(* _execute_steps of the internal engine on the call steps of the internal *)
(* flow: the context after the flow ended                                  *)
RECURSIVE InnerSteps(_, _)
InnerSteps(steps, sc) ==
    IF steps = <<>> THEN sc
    ELSE LET st == steps[1]
             inputs == ResolveInputs(sc, Len(sc), st.inputs)
             r == TransformExecute(st.id, FreshComps, inputs)
         IN  InnerSteps(Tail(steps),
                        SetComponentOutput(
                            ApplyOutputs(sc, Len(sc), st.outputs, r.out),
                            1, st.id, r.out))

InitComposite ==
    /\ plan = NoPlan
    /\ plan_inputs = <<>>
    /\ components = <<>>
    /\ definitions = RegisteredDefinitions
    /\ run_id = RunId
    /\ persistent = FALSE
    /\ policy = "stop"
    /\ phase = "composite"
    /\ run = 1
    /\ stack = <<>>
    /\ scopes = OuterContext
    /\ comps = FreshComps
    /\ errors = <<>>
    /\ result = NoResult
    /\ file = <<>>
    /\ eol = TRUE
    /\ state = FreshState
    /\ loop_path = <<>>
    /\ fails = 0
    /\ last = NoLast
    /\ hist = FreshHist

(* CompositeComponent.execute of an instance of type "cmp": the internal   *)
(* plan holds the component dicts of the registered definition themselves, *)
(* the merge writes into them, and the internal engine (plan, inputs,      *)
(* components below are its fields) is built from the result               *)
CompositeExecute ==
    /\ phase = "composite"
    /\ \E instance \in InstanceConfigs, inputs \in CompositeInputs :
          LET merged == MergeConfig(definitions.cmp.components, instance)
              internal == definitions.cmp
              context == InnerSteps(internal.flow, InternalContext(inputs))
          IN
          /\ definitions' = [definitions EXCEPT !.cmp.components = merged]
          /\ plan' = [NoPlan EXCEPT !.name = "internal", !.components = merged,
                                    !.flow = internal.flow]
          /\ plan_inputs' = inputs
          /\ components' = InstantiateComponents(merged, inputs, <<>>)
          /\ hist' = [hist EXCEPT !.inner = context]
          /\ last' = [NoLast EXCEPT
                         !.op = "composite",
                         !.prev = VDict(instance),
                         !.out = [i \in 1..Len(internal.output_mappings) |->
                                     KV(internal.output_mappings[i].k,
                                        Resolve(context, Len(context),
                                                internal.output_mappings[i].v))]]
    /\ UNCHANGED <<run_id, persistent, policy, phase, run, stack, scopes, comps, errors,
                   result, file, eol, state, loop_path, fails>>

(* CompositeComponent.__init__ in any engine of the process: the instance  *)
(* takes the registered definition (last.prev shows the config of "inner"  *)
(* in it)                                                                  *)
CompositeCreate ==
    /\ phase = "composite"
    /\ \E instance \in InstanceConfigs :
          last' = [NoLast EXCEPT !.op = "create", !.out = instance,
                                 !.prev = VDict(ConfigOf(definitions.cmp.components[1]))]
    /\ UNCHANGED <<plan, plan_inputs, components, definitions, run_id, persistent,
                   policy, phase, run, stack, scopes, comps, errors, result,
                   file, eol, state, loop_path, fails, hist>>

NextComposite ==
    \/ CompositeCreate
    \/ CompositeExecute

SpecComposite == InitComposite /\ [][NextComposite]_vars

(***************************************************************************)
(* The state log on its own: _log_event appends call_complete events to a  *)
(* state file that a started run left (run_start and call_start lines),    *)
(* and _load_existing_state reads the file back.                           *)
(***************************************************************************)
MaxEvents == 3

LogHashes == {"h1", "h2"}

(* the outputs of the logged calls: JSON values, and one that holds an     *)
(* object json.dumps writes through default=str                            *)
LogOutputs ==
    { <<>>, <<KV("y", VInt(1))>>,
      <<KV("y", VList(<<VStr("a"), VNone>>)), KV("n", VBool(TRUE))>>,
      <<KV("y", VObj)>> }

EvStart(h) ==
    [NoEvent EXCEPT !.type = "call_start", !.component = "t", !.call_hash = h]

EvComplete(h, outputs) ==
    [NoEvent EXCEPT !.type = "call_complete", !.component = "t",
                    !.call_hash = h, !.outputs = outputs]

(* the files a started run leaves before its first call_complete *)
StartedFiles ==
    LET start == LogEvent(<<>>, TRUE, [NoEvent EXCEPT !.type = "run_start",
                                                      !.run_id = RunId])
    IN  { start,
          LogEvent(start, TRUE, EvStart("h1")),
          LogEvent(LogEvent(start, TRUE, EvStart("h1")), TRUE, EvStart("h2")) }

InitLog ==
    /\ plan = NoPlan
    /\ plan_inputs = <<>>
    /\ components = <<>>
    /\ definitions = RegisteredDefinitions
    /\ run_id = RunId
    /\ persistent = TRUE
    /\ policy = "stop"
    /\ phase = "log"
    /\ run = 1
    /\ stack = <<>>
    /\ scopes = <<>>
    /\ comps = FreshComps
    /\ errors = <<>>
    /\ result = NoResult
    /\ file \in StartedFiles
    /\ eol = TRUE
    /\ state = FreshState
    /\ loop_path = <<>>
    /\ fails = 0
    /\ last = NoLast
    /\ hist = FreshHist

(* _log_event("call_complete", ...); hist.writes keeps what was appended *)
LogCallComplete ==
    /\ phase = "log"
    /\ Len(hist.writes) < MaxEvents
    /\ \E h \in LogHashes, outputs \in LogOutputs :
          /\ Logged(EvComplete(h, outputs))
          /\ hist' = [hist EXCEPT !.writes = Append(@, EvComplete(h, outputs))]
          /\ last' = [NoLast EXCEPT !.op = "log", !.hash = h, !.out = outputs]
    /\ state' = [state EXCEPT !.total_events = @ + 1]
    /\ UNCHANGED <<plan, plan_inputs, components, definitions, run_id, persistent,
                   policy, phase, run, stack, scopes, comps, errors, result,
                   loop_path, fails>>

(* _load_existing_state on the file as it is *)
LoadState ==
    /\ phase = "log"
    /\ state' = LoadExistingState(file)
    /\ last' = [NoLast EXCEPT !.op = "load"]
    /\ UNCHANGED <<plan, plan_inputs, components, definitions, run_id, persistent,
                   policy, phase, run, stack, scopes, comps, errors, result,
                   file, eol, loop_path, fails, hist>>

NextLog ==
    \/ LogCallComplete
    \/ LoadState

SpecLog == InitLog /\ [][NextLog]_vars

-----------------------------------------------------------------------------
(* What the running process found in the state file when it loaded it: the *)
(* file is append only, so it is the writes of earlier processes.          *)

Before(w) == w.ev.g.run < run

FileAtLoad == [j \in 1..Len(file) |-> SelectSeq(file[j], Before)]

RecordsAtLoad(type) ==
    {FileAtLoad[j][1].ev :
        j \in {n \in 1..Len(file) : /\ ParseOk(FileAtLoad[n])
                                    /\ FileAtLoad[n][1].ev.type = type}}

Resumed == persistent /\ run > 1 /\ phase \in {"running", "finishing", "done"}

-----------------------------------------------------------------------------
(* C1: progress monotonicity.  In a restarted persistent run no call step  *)
(* whose call_complete was in the log is executed again, no iteration      *)
(* whose iteration_complete was in the log runs its inner steps again, and *)
(* the outputs recorded for completed calls are the ones the cache holds.  *)
(* The code does not keep this for a call placed after a loop.             *)
C1_ProgressMonotonicity ==
    Resumed =>
      /\ \A x \in hist.execs : \A e \in RecordsAtLoad("call_complete") :
            x.site # e.g.site
      /\ \A it \in hist.iters : \A e \in RecordsAtLoad("iteration_complete") :
            it.site = e.g.site => it.skipped
      /\ \A e \in RecordsAtLoad("call_complete") :
            /\ DHas(state.completed_calls, e.call_hash)
            /\ DGet(state.completed_calls, e.call_hash) = VDict(e.outputs)

(* C2: resume completeness.  With no component failing, a run resumed on a *)
(* log that holds iteration_complete records skips exactly the iterations  *)
(* that have such a record,                                                *)
(* logs nothing for them, runs every other iteration and ends with         *)
(* success.  The code skips iterations that never ran (see C7).            *)
C2_ResumeCompleteness ==
    Resumed /\ fails = 0 /\ RecordsAtLoad("iteration_complete") # {} =>
      /\ \A it \in hist.iters :
            it.skipped <=> \E e \in RecordsAtLoad("iteration_complete") :
                              e.g.site = it.site
      /\ \A j \in 1..Len(file) : \A n \in 1..Len(file[j]) :
            LET ev == file[j][n].ev IN
            ev.g.run = run /\ ev.type \in {"iteration_start", "iteration_complete"}
               => \A e \in RecordsAtLoad("iteration_complete") : e.g.site # ev.g.site
      /\ phase = "done" => result.success

(* C3: at-least-once for pending calls.  A resumed run that ended with     *)
(* success has executed again every call that was pending in the log when  *)
(* it loaded it.  The code leaves a pending call of a completed iteration  *)
(* alone.                                                                  *)
C3_PendingRetried ==
    Resumed /\ phase = "done" /\ result.success =>
      \A e \in RecordsAtLoad("call_start") :
         e.call_hash \in LoadExistingState(FileAtLoad).pending_calls
            => \E x \in hist.execs : x.hash = e.call_hash \/ x.site = e.g.site

(* C4: truncation safety.  When the last line of the state file ends in a  *)
(* write that was cut short, loading the file yields the completed calls   *)
(* and completed iterations of the file without that line.                 *)
LastLine == file[Len(file)]

LastLineCut == file # <<>> /\ ~LastLine[Len(LastLine)].full

C4_TruncationSafety ==
    LastLineCut =>
      LET whole == LoadExistingState(file)
          front == LoadExistingState(SubSeq(file, 1, Len(file) - 1))
      IN  /\ whole.completed_calls = front.completed_calls
          /\ whole.completed_iterations = front.completed_iterations
          /\ whole.pending_calls = front.pending_calls

(* C4 witness: the cut write is a call_complete or an iteration_complete   *)
(* and earlier lines hold completed work *)
C4_Witness ==
    /\ LastLineCut
    /\ Len(LastLine) = 1
    /\ LastLine[1].ev.type \in {"call_complete", "iteration_complete"}
    /\ LoadExistingState(file).completed_calls # <<>>
    /\ LoadExistingState(file).completed_iterations # {}

-----------------------------------------------------------------------------
LastWrite(f) == f[Len(f)][Len(f[Len(f)])]

(* C5: a call step whose call_hash is in completed_calls does not execute  *)
(* the component and logs nothing; afterwards the root cache entry of the  *)
(* component is the cached outputs and each variable of the outputs        *)
(* mapping whose output is among them holds the cached value in the        *)
(* current scope.  A call step whose hash is not there logs call_start,    *)
(* executes, logs call_complete with the outputs and inserts them into the *)
(* cache.                                                                  *)
C5_CacheHit ==
    /\ [][AtCallCheck /\ phase' = "running" =>
            LET id == Cur.id
                h == CallHash
                d == D
                mapping == Cur.outputs
            IN  IF DHas(state.completed_calls, h)
                THEN LET cached == DGet(state.completed_calls, h) IN
                     /\ file' = file
                     /\ hist'.execs = hist.execs
                     /\ comps' = comps
                     /\ DHas(scopes'[1].outs, id)
                     /\ DGet(scopes'[1].outs, id) = cached
                     /\ \A n \in 1..Len(mapping) :
                           DHas(cached.d, mapping[n].o) =>
                              /\ DHas(scopes'[d].vars, mapping[n].var)
                              /\ DGet(scopes'[d].vars, mapping[n].var)
                                    = DGet(cached.d, mapping[n].o)
                ELSE /\ LastWrite(file').ev.type = "call_start"
                     /\ LastWrite(file').ev.call_hash = h
                     /\ LastWrite(file').full
                     /\ hist'.execs = hist.execs
                     /\ state'.completed_calls = state.completed_calls
         ]_vars
    /\ [][AtCallRun /\ last'.op = "call" =>
            /\ LastWrite(file').ev.type = "call_complete"
            /\ LastWrite(file').ev.call_hash = CallHash
            /\ LastWrite(file').ev.outputs = last'.out
            /\ Exec(Cur.id, CallHash) \in hist'.execs
            /\ DHas(state'.completed_calls, CallHash)
            /\ DGet(state'.completed_calls, CallHash) = VDict(last'.out)
         ]_vars

(* C5 witness: a resumed run answered a call with an outputs mapping from  *)
(* the cache *)
C5_Witness ==
    /\ Resumed
    /\ last.op = "call_hit"
    /\ last.comp = "t"
    /\ DHas(scopes[last.d].vars, "v")
    /\ hist.execs # {}

(* C6: two calls on one component whose resolved inputs are equal have the *)
(* same call_hash, whatever the templates, the scope, the key order or the *)
(* process that computed it; the hash is the hash of the resolved inputs.  *)
CallsSeen ==
    {[comp |-> c.comp, inputs |-> c.inputs, hash |-> c.hash] : c \in hist.calls}
    \cup {[comp |-> e.component, inputs |-> e.g.inputs, hash |-> e.call_hash] :
             e \in RecordsAtLoad("call_start")}

C6_Fingerprint ==
    /\ \A a \in CallsSeen : \A b \in CallsSeen :
          a.comp = b.comp /\ DEq(a.inputs, b.inputs) => a.hash = b.hash
    /\ \A c \in hist.calls : c.hash = ComputeCallHash(c.comp, c.inputs)

(* C6 witness: two calls of one run at different depths, from different    *)
(* templates and with the keys in a different order, and a call of an      *)
(* earlier process, all with equal resolved inputs *)
C6_Witness ==
    /\ \E a \in hist.calls : \E b \in hist.calls :
          /\ a.comp = b.comp
          /\ Len(a.site.iters) # Len(b.site.iters)
          /\ a.inputs # b.inputs
          /\ DEq(a.inputs, b.inputs)
    /\ \E a \in hist.calls : \E e \in RecordsAtLoad("call_start") :
          a.comp = e.component /\ DEq(a.inputs, e.g.inputs)

(* C7: within a run no two distinct loop iterations are given the same     *)
(* iteration_key.  The code gives the iterations of two loops with the     *)
(* same loop variable, index and item the same key.                        *)
C7_KeysUnique ==
    persistent =>
      \A a \in hist.iters : \A b \in hist.iters :
         a.site # b.site => a.key # b.key

-----------------------------------------------------------------------------
(* C8: right after a source, call or sink step on component c completed,   *)
(* the root context's cache entry for c is the outputs that execution      *)
(* returned, whatever the depth of the scope the step ran in and whatever  *)
(* the entry held before; a call step that fails leaves the root cache as  *)
(* it was.                                                                 *)
C8_RootCache ==
    /\ [](last.op \in {"source", "call", "sink"} =>
             /\ DHas(scopes[1].outs, last.comp)
             /\ DGet(scopes[1].outs, last.comp) = VDict(last.out))
    /\ [][last'.op = "fail" => scopes'[1].outs = scopes[1].outs]_vars

(* C8 witness: in the second iteration of a loop a call replaced the entry *)
(* the first iteration had left *)
C8_Witness ==
    /\ last.op = "call"
    /\ last.comp = "t"
    /\ last.d = 2
    /\ last.site.iters[2] = 1
    /\ \E x \in hist.execs : x.comp = "t" /\ x.site.iters[2] = 0
    /\ DGet(scopes[1].outs, "t") = VDict(<<KV("y", VStr("b"))>>)

(* a call failed in a scope below the root with an entry in place *)
FailedOverEntry ==
    /\ last.op = "fail"
    /\ last.d = 2
    /\ last.prev # VNone
    /\ RootEntry(last.comp) = last.prev

(* the names the steps of a list assign: outputs mappings, loop and index  *)
(* variables, at any depth                                                 *)
RECURSIVE Assigned(_)
Assigned(steps) ==
    IF steps = <<>> THEN {}
    ELSE LET st == steps[1]
             here == IF st.tag = "call"
                     THEN {st.outputs[n].var : n \in 1..Len(st.outputs)}
                     ELSE IF st.tag = "loop"
                     THEN ({st.as, st.index} \ {""}) \cup Assigned(st.steps)
                     ELSE {}
         IN  here \cup Assigned(Tail(steps))

(* a loop whose loop and index variable are assigned nowhere inside it *)
NotRebound(L) ==
    /\ L.index # L.as
    /\ ({L.as, L.index} \ {""}) \cap Assigned(L.steps) = {}

InsideStep == phase = "running" /\ stack # <<>> /\ Top.pc \in 1..Len(CurSteps)

(* the frames of the loops that enclose the current step *)
LoopFrames == {j \in 1..Len(stack) : stack[j].kind = "loop"}

Bound(j) ==
    LET L == LoopOf(plan.flow, stack[j].list) IN
    /\ CtxGet(scopes, D, L.as) = stack[j].coll[stack[j].i + 1]
    /\ L.index # "" => CtxGet(scopes, D, L.index) = VInt(stack[j].i)

(* C9 as stated: at every step inside iteration i of a loop, at any depth, *)
(* get of the loop variable is the i-th element of the collection and get  *)
(* of the index variable is i.                                             *)
C9_LoopVarBinding ==
    InsideStep => \A j \in LoopFrames : Bound(j)

(* C9 amended: the same for every enclosing loop whose loop and index      *)
(* variable are not assigned again inside it (by an outputs mapping, by a  *)
(* nested loop, or by its own index variable).                             *)
C9_LoopVarBindingUnlessRebound ==
    InsideStep =>
       \A j \in LoopFrames :
          NotRebound(LoopOf(plan.flow, stack[j].list)) => Bound(j)

(* C9 witness: a step of an inner loop in the second iteration of an outer *)
(* loop that names an index variable *)
C9_Witness ==
    /\ InsideStep
    /\ Len(stack) = 3
    /\ stack[2].i = 1
    /\ stack[3].i = 1
    /\ LoopOf(plan.flow, stack[2].list).index # ""
    /\ NotRebound(LoopOf(plan.flow, stack[2].list))
    /\ NotRebound(LoopOf(plan.flow, stack[3].list))
    /\ CtxGet(scopes, D, "oi") = VInt(1)

(* C10: no step inside a loop iteration changes the variables of an        *)
(* ancestor scope, a new iteration starts from a scope that holds the loop *)
(* variables only, the iteration's scope is gone when it ends, and an      *)
(* entry of the root cache is readable from every scope by the             *)
(* component's id unless a variable of that name hides it.                 *)
Hidden(name) == \E j \in 1..D : DHas(scopes[j].vars, name)

C10_LoopLocal ==
    /\ [](D >= 1 =>
            \A n \in 1..Len(scopes[1].outs) :
               LET e == scopes[1].outs[n] IN
               ~Hidden(e.k) => CtxGet(scopes, D, e.k) = e.v)
    /\ [][D >= 1 /\ scopes' # <<>> =>
            /\ Len(scopes') \in {D - 1, D, D + 1}
            /\ Len(scopes') = D =>
                  \A j \in 1..(D - 1) : scopes'[j].vars = scopes[j].vars
            /\ Len(scopes') = D - 1 =>
                  \A j \in 1..(D - 1) : scopes'[j].vars = scopes[j].vars
            /\ Len(scopes') = D + 1 =>
                  /\ \A j \in 1..D : scopes'[j].vars = scopes[j].vars
                  /\ scopes'[D + 1].vars = LoopVars
                  /\ scopes'[D + 1].outs = <<>>
         ]_vars

(* C10 witness: after a loop whose call maps an output to v, v is not      *)
(* visible in the root scope while the call's outputs are *)
C10_Witness ==
    /\ plan.name = "loop"
    /\ phase = "running"
    /\ D = 1
    /\ AtStep("call")
    /\ CtxGet(scopes, 1, "v") = VNone
    /\ CtxGet(scopes, 1, "t.y") = VStr("b")


(***************************************************************************)
(* C11  Return destination.  After any sequence of write(data,             *)
(* to="return") calls issued from contexts of any depth, the root's return *)
(* space is the merge of the written dicts in call order: it has exactly   *)
(* the keys that were written, each once, each with the value of the last  *)
(* write that carried it; no context below the root holds return data, and *)
(* get_returns answers the root's return space from every depth.           *)
(***************************************************************************)
LastWriteOf(key) ==
    CHOOSE i \in 1..Len(hist.writes) :
        /\ DHas(hist.writes[i], key)
        /\ \A j \in (i + 1)..Len(hist.writes) : ~DHas(hist.writes[j], key)

C11_ReturnDestination ==
    LET root == scopes[1].returns
    IN  /\ DKeys(root) = UNION {DKeys(hist.writes[i]) : i \in 1..Len(hist.writes)}
        /\ Cardinality(DKeys(root)) = Len(root)
        /\ \A key \in DKeys(root) :
              DGet(root, key) = DGet(hist.writes[LastWriteOf(key)], key)
        /\ \A j \in 2..Len(scopes) : scopes[j].returns = <<>>
        /\ \A d \in 1..Len(scopes) : GetReturns(scopes, d) = root

(* a write from the deepest context has replaced a value written earlier *)
C11_Witness ==
    /\ last.op = "write"
    /\ last.d = MaxDepth
    /\ Len(hist.writes) = MaxWrites
    /\ scopes[1].returns = <<KV("k", VInt(2)), KV("j", VInt(1))>>
    /\ hist.writes[MaxWrites] = <<KV("k", VInt(2))>>

(***************************************************************************)
(* C12  The result of execute() carries the return destination's data:     *)
(* once execute() has returned a successful result, the result has a       *)
(* field returns, and it equals the root context's return space.           *)
(***************************************************************************)
C12_ResultReturns ==
    result.done /\ result.success =>
        /\ "returns" \in DOMAIN result
        /\ DEq(result.returns, GetReturns(scopes, 1))

(***************************************************************************)
(* C13  No step failure is lost.  Under every error policy, when execute() *)
(* has returned, every exception a step raised during the run has a record *)
(* in errors; success is false exactly when some record is not recovered,  *)
(* and success is true only when every raised exception has a recovered    *)
(* record.                                                                 *)
(***************************************************************************)
C13_NoFailureLost ==
    result.done =>
        /\ \A r \in hist.raised :
              \E i \in 1..Len(errors) :
                  /\ errors[i].error_type = r.type
                  /\ result.success => errors[i].recovered
        /\ result.success <=> Unrecovered(errors) = {}

(***************************************************************************)
(* C14  Stop policy.  Under on_error = stop, once a step has raised, the   *)
(* flow is over: no step list is being executed any more, execute()        *)
(* returns success = false, and from then on no component is executed, no  *)
(* call is issued, no iteration is started and no further step raises, at  *)
(* any nesting depth.                                                      *)
(***************************************************************************)
C14_StopPolicy ==
    /\ [](policy = "stop" /\ hist.raised # {} =>
              /\ stack = <<>>
              /\ phase \in {"finishing", "done"}
              /\ result.done
              /\ ~result.success
              /\ Unrecovered(errors) # {})
    /\ [][policy = "stop" /\ hist.raised # {} /\ hist'.raised # {} =>
              /\ hist'.execs = hist.execs
              /\ hist'.calls = hist.calls
              /\ hist'.iters = hist.iters
              /\ hist'.raised = hist.raised]_vars

(* the call of the first iteration raised: the sink of that iteration, the *)
(* second iteration and the steps after the loop were left out             *)
C14_Witness ==
    /\ policy = "stop"
    /\ plan.name = "loop"
    /\ phase = "done"
    /\ ~result.success
    /\ Cardinality(hist.iters) = 1
    /\ \E x \in hist.execs : x.comp = "t" /\ ~x.ok
    /\ {x.comp : x \in hist.execs} = {"s", "t"}

(***************************************************************************)
(* C15  Skip policy.  Under on_error = skip, a step that raises is         *)
(* recorded at the end of errors with its exception type, its index in the *)
(* step list, recovered = true and recovery_action = "skipped"; the next   *)
(* step to execute is the one that follows it in the same step list, in    *)
(* the same iteration; and every recorded error is recovered, so a result  *)
(* of execute() has success = true.                                        *)
(***************************************************************************)
C15_SkipPolicy ==
    /\ [][policy = "skip" /\ hist'.raised # hist.raised /\ hist.raised \subseteq hist'.raised =>
              /\ \E r \in hist'.raised \ hist.raised :
                    errors' = Append(errors,
                                     [error_type |-> r.type,
                                      step_index |-> r.site.pc - 1,
                                      recovered |-> TRUE,
                                      recovery_action |-> "skipped"])
              /\ Len(stack') = Len(stack)
              /\ \A j \in 1..(Len(stack) - 1) : stack'[j] = stack[j]
              /\ stack'[Len(stack)].list = Top.list
              /\ stack'[Len(stack)].i = Top.i
              /\ stack'[Len(stack)].pc = Top.pc + 1
              /\ phase' = phase
              /\ result' = result]_vars
    /\ [](policy = "skip" =>
              /\ Unrecovered(errors) = {}
              /\ Len(errors) = Cardinality(hist.raised)
              /\ result.done => result.success)

(* the call of the first iteration raised and was skipped: the sink of the *)
(* iteration, the second iteration and the steps after the loop ran        *)
C15_Witness ==
    /\ policy = "skip"
    /\ plan.name = "loop"
    /\ phase = "done"
    /\ result.success
    /\ errors = <<ErrRec("ComponentError", 0, TRUE, "skipped")>>
    /\ Cardinality(hist.iters) = 2
    /\ \E x \in hist.execs : x.comp = "t" /\ ~x.ok /\ x.site.iters[Len(x.site.iters)] = 0
    /\ \E x \in hist.execs : x.comp = "t" /\ x.ok
    /\ \E x \in hist.execs : x.comp = "u" /\ x.ok

(***************************************************************************)
(* C16  Retry policy.  Under on_error = retry, a step that raised is       *)
(* executed again, at most max_retries times: when execute() has returned, *)
(* every step instance that raised either succeeded in a later attempt or  *)
(* is reported in errors as not recovered.                                 *)
(***************************************************************************)
C16_RetryPolicy ==
    policy = "retry" /\ result.done =>
        \A r \in hist.raised :
            /\ \/ \E x \in hist.execs : x.site = r.site /\ x.ok
               \/ \E i \in 1..Len(errors) :
                     errors[i].error_type = r.type /\ ~errors[i].recovered
            /\ Cardinality({x \in hist.execs : x.site = r.site}) <= 1 + MaxRetries

(***************************************************************************)
(* C17  Default policy.  Under on_error = default, when a call step        *)
(* raises, the variables its outputs mapping names receive the protocol's  *)
(* default_value, the error is recorded at the end of errors as recovered  *)
(* with recovery_action "used_default", and the next step of the same step *)
(* list is the next to execute.                                            *)
(***************************************************************************)
C17_DefaultPolicy ==
    [][policy = "default" /\ last'.op = "fail" =>
          /\ \E r \in hist'.raised \ hist.raised :
                errors' = Append(errors, ErrRec(r.type, r.site.pc - 1, TRUE,
                                                "used_default"))
          /\ \A j \in 1..Len(Cur.outputs) :
                CtxGet(scopes', D, Cur.outputs[j].var) = DefaultValue
          /\ Len(stack') = Len(stack)
          /\ stack'[Len(stack)].pc = Top.pc + 1]_vars

(***************************************************************************)
(* C18  Per-component error protocol.  A failure of a step on a component  *)
(* that declares its own protocol is handled by that protocol, whatever    *)
(* the plan-level policy: for a component declaring retry, whose execute   *)
(* raises fewer than max_retries times, the step is executed again and     *)
(* succeeds, so when execute() has returned every execution of that        *)
(* component that raised is followed by a successful one of the same step  *)
(* instance.                                                               *)
(***************************************************************************)
C18_ComponentProtocol ==
    result.done /\ MaxFails < MaxRetries =>
        \A x \in hist.execs :
            ~x.ok /\ ErrorProtocolOf(x.comp) = "retry" =>
                \E y \in hist.execs : y.site = x.site /\ y.ok

(***************************************************************************)
(* C19  Validation gate.  When the plan has a validation error (a          *)
(* component of unknown type, or a source, call or sink step at any depth  *)
(* naming an id that is not an instantiated component), execute() raises   *)
(* ValidationError before anything runs: no step list is entered, no       *)
(* component is executed, no call is issued, no iteration starts and no    *)
(* result is returned.  Hence every source, call or sink step the engine   *)
(* is at, and every component executed, is an instantiated component.      *)
(***************************************************************************)
RECURSIVE Referenced(_)
Referenced(steps) ==
    UNION { (IF steps[i].tag \in {"source", "call", "sink"}
             THEN {steps[i].id} ELSE {})
            \cup Referenced(steps[i].steps) \cup Referenced(steps[i].els)
          : i \in 1..Len(steps) }

HasValidationError(p) ==
    \/ \E i \in 1..Len(p.components) : ~p.components[i].known
    \/ \E id \in Referenced(p.flow) : id \notin Instantiated(p)

C19_ValidationGate ==
    /\ HasValidationError(plan) =>
          /\ phase \in {"new", "invalid", "crashed"}
          /\ stack = <<>>
          /\ hist = FreshHist
          /\ ~result.done
    /\ phase = "invalid" => HasValidationError(plan) /\ last.op = "ValidationError"
    /\ \A tag \in {"source", "call", "sink"} :
          AtStep(tag) => Cur.id \in Instantiated(plan)
    /\ \A x \in hist.execs : x.comp \in Instantiated(plan)

(* execute() has raised ValidationError for the plan whose only bad        *)
(* reference is inside a loop                                              *)
C19_Witness ==
    /\ phase = "invalid"
    /\ plan.name = "bad"
    /\ UnknownTypes(plan) = {}
    /\ CheckTop(plan.flow, Instantiated(plan)) = {}
    /\ ValidatePlan(plan) = {"z"}

(***************************************************************************)
(* C20  Loop over None or a non-iterable.  When the engine executes a loop *)
(* step whose over reference has no value (None, as for a name defined     *)
(* nowhere) or a value that is not iterable, the step raises               *)
(* ExecutionError: the loop is not entered, so no inner step runs, and     *)
(* nothing is written to the state file.                                   *)
(***************************************************************************)
C20_LoopOverNone ==
    [][/\ AtStep("loop")
       /\ last'.op \in {"loop", "loop_fail"}
       /\ (LET v == CtxGet(scopes, D, Cur.over) IN v = VNone \/ ~Iterable(v))
       => /\ last'.op = "loop_fail"
          /\ Raised("ExecutionError") \in hist'.raised
          /\ Len(stack') <= Len(stack)
          /\ file' = file]_vars

(***************************************************************************)
(* C21  Conditional on an unresolvable reference.  A conditional whose if  *)
(* is a single reference that has no value is treated as falsy: its then   *)
(* branch is not taken (the else branch is, when there is one).            *)
(***************************************************************************)
StepOf(site) == StepsAt(plan.flow, site.list)[site.pc]

Unresolved(b) ==
    /\ FullMatch(StepOf(b.site).cif)
    /\ b.cond = VStr(StepOf(b.site).cif)

C21_UnresolvedIsFalsy ==
    \A b \in hist.branches :
        Unresolved(b) =>
            b.branch = IF StepOf(b.site).els # <<>> THEN "else" ELSE "none"

(***************************************************************************)
(* C22  Conditional step.  Every execution of a conditional step takes     *)
(* exactly one decision: then iff the resolved if value is truthy (a       *)
(* string is falsy iff its lowercase form is "false", "no", "0" or "", any *)
(* other value has Python's truthiness), otherwise else when the step has  *)
(* one, otherwise nothing.  Every step executed inside a branch belongs to *)
(* the branch that was decided, so the two branches never both run.        *)
(***************************************************************************)
Falsy(v) ==
    \/ v.t = "str" /\ Lower(v.s) \in {"false", "no", "0", ""}
    \/ v \in {VInt(0), VBool(FALSE), VNone, VList(<<>>), VDict(<<>>)}

(* the execution x happened in the step list of a branch of the            *)
(* conditional execution b                                                 *)
InBranch(x, b) ==
    LET n == Len(b.site.list) IN
    /\ Len(x.site.list) = n + 2
    /\ SubSeq(x.site.list, 1, n) = b.site.list
    /\ x.site.list[n + 1] = b.site.pc
    /\ SubSeq(x.site.iters, 1, Len(b.site.iters)) = b.site.iters

C22_Conditional ==
    /\ \A b \in hist.branches :
          /\ b.branch = "then" <=> ~Falsy(b.cond)
          /\ b.branch = "else" <=> Falsy(b.cond) /\ StepOf(b.site).els # <<>>
          /\ b.branch = "none" <=> Falsy(b.cond) /\ StepOf(b.site).els = <<>>
          /\ \A c \in hist.branches : c.site = b.site => c = b
    /\ \A x \in hist.execs :
          LET n == Len(x.site.list) IN
          n >= 2 /\ x.site.list[n] \in {1, 2} =>
              \E b \in hist.branches :
                  /\ InBranch(x, b)
                  /\ b.branch = IF x.site.list[n] = 1 THEN "then" ELSE "else"

(* in one run of the loop the conditional took else for "no" and then for  *)
(* 2, and the step of each branch ran                                      *)
C22_Witness ==
    /\ plan.name = "condloop"
    /\ phase = "done"
    /\ \E b \in hist.branches : b.cond = VStr("no") /\ b.branch = "else"
    /\ \E b \in hist.branches : b.cond = VInt(2) /\ b.branch = "then"
    /\ \E x \in hist.execs : x.comp = "t" /\ x.ok
    /\ \E x \in hist.execs : x.comp = "u" /\ x.site.list = <<1, 0, 1, 2>>

WarningsFor(id) == Cardinality({j \in 1..Len(hist.warnings) : hist.warnings[j] = id})

C23_WarnOnce == \A id \in SinkIds : WarningsFor(id) <= 1

(***************************************************************************)
(* C25  Template identity.  For a string that is exactly one placeholder   *)
(* "{X}" where X has a value, resolve returns the value get(X) itself,     *)
(* with its type: a list stays a list, an integer an integer, and the      *)
(* falsy values 0, false and the empty list are returned as they are,      *)
(* never as a string.                                                      *)
(***************************************************************************)
C25_TemplateIdentity ==
    \A parts \in PartLists :
        /\ last.op = "resolve"
        /\ last.hash = TemplateOf(parts)
        /\ Len(parts) = 1
        /\ parts[1].ref
        /\ Get(scopes, last.d, parts[1].s) # VNone
        => last.prev = Get(scopes, last.d, parts[1].s)

(* resolve("{c.y[1]}") from a child context gave the integer 0, and        *)
(* resolve("{c.e}") the empty list                                         *)
C25_Witness ==
    /\ last.op = "resolve"
    /\ last.d = 2
    /\ \/ last.hash = "{c.y[1]}" /\ last.prev = VInt(0)
       \/ last.hash = "{c.e}" /\ last.prev = VList(<<>>)
       \/ last.hash = "{c.f}" /\ last.prev = VBool(FALSE)

(***************************************************************************)
(* C26  Template interpolation.  For a string with mixed content resolve   *)
(* returns the string in which every placeholder {X} with a value is       *)
(* replaced by str(get(X)) and every placeholder without a value is left   *)
(* as written; resolve of a list or a dict does this to each element or    *)
(* value, and any other value is returned unchanged.                       *)
(***************************************************************************)
RECURSIVE Substituted(_, _, _)
Substituted(sc, d, parts) ==
    IF parts = <<>> THEN ""
    ELSE LET part == parts[1]
             val == IF part.ref THEN Get(sc, d, part.s) ELSE VNone
         IN  (IF ~part.ref THEN part.s
              ELSE IF val # VNone THEN PyStr(val)
              ELSE "{" \o part.s \o "}")
             \o Substituted(sc, d, Tail(parts))

(* a string is exactly one placeholder *)
OnePlaceholder(parts) == Len(parts) = 1 /\ parts[1].ref

RECURSIVE Expected(_, _, _)
Expected(sc, d, v) ==
    CASE v.t = "str" ->
            LET parts == CHOOSE p \in PartLists : TemplateOf(p) = v.s IN
            IF OnePlaceholder(parts)
            THEN (IF Get(sc, d, parts[1].s) # VNone
                  THEN Get(sc, d, parts[1].s) ELSE v)
            ELSE VStr(Substituted(sc, d, parts))
      [] v.t = "list" -> VList([i \in 1..Len(v.l) |-> Expected(sc, d, v.l[i])])
      [] v.t = "dict" ->
            VDict([i \in 1..Len(v.d) |-> KV(v.d[i].k, Expected(sc, d, v.d[i].v))])
      [] OTHER -> v

(* the argument of the resolve that last records *)
LastArg == IF last.out = <<>> THEN VStr(last.hash) ELSE last.out[1].v

C26_TemplateInterpolation ==
    /\ last.op = "resolve"
    /\ LastArg.t = "str" =>
          \E parts \in PartLists :
              TemplateOf(parts) = LastArg.s /\ ~OnePlaceholder(parts)
    => last.prev = Expected(scopes, last.d, LastArg)

(* from a child context, with n = "s" set on the root: a mixed template,   *)
(* and a list of templates                                                 *)
C26_Witness ==
    /\ last.op = "resolve"
    /\ last.d = 2
    /\ \/ last.hash = "a{n}-{nope}{c.y[1]}" /\ last.prev = VStr("as-{nope}0")
       \/ /\ LastArg.t = "list"
          /\ last.prev = VList(<<VInt(0), VStr("as"), VInt(3)>>)

(***************************************************************************)
(* C27  Lookup order of the leading segment of a reference: a variable of  *)
(* the current scope, then the component-output dict of that name in the   *)
(* root cache, then the ancestor scopes.  A reference made in a child      *)
(* scope to a name that is both a component id and a variable of an        *)
(* ancestor scope gives the component's outputs.                           *)
(***************************************************************************)
RECURSIVE AncestorVariable(_, _, _)
AncestorVariable(sc, d, name) ==
    IF d = 0 THEN VNone
    ELSE IF DHas(sc[d].vars, name) THEN DGet(sc[d].vars, name)
    ELSE AncestorVariable(sc, d - 1, name)

LeadingInOrder(sc, d, name) ==
    IF DHas(sc[d].vars, name) THEN DGet(sc[d].vars, name)
    ELSE IF DHas(sc[1].outs, name) THEN DGet(sc[1].outs, name)
    ELSE AncestorVariable(sc, d - 1, name)

C27_LookupOrder ==
    \A name \in {"n", "v", "nope"} :
        /\ last.op = "resolve"
        /\ last.hash = "{" \o name \o "}"
        => last.prev = IF LeadingInOrder(scopes, last.d, name) # VNone
                       THEN LeadingInOrder(scopes, last.d, name)
                       ELSE VStr(last.hash)

(***************************************************************************)
(* C28  Path navigation.  For a reference with any number of path steps    *)
(* after the leading segment (id.field, id.field.subfield,                 *)
(* id.field[N].subfield) get applies each .field as a dict lookup or       *)
(* attribute access on the value of the previous step and each [N] as an   *)
(* index into a sequence, and returns the default when an intermediate     *)
(* value or an index is missing.                                           *)
(***************************************************************************)
StepByStep(sc, d, name) ==
    LET segs == Segments(name)
    IN  Navigate(CtxGet(sc, d, segs[1].s), Tail(segs))

C28_PathNavigation ==
    \A parts \in PartLists :
        /\ last.op = "resolve"
        /\ last.hash = TemplateOf(parts)
        /\ OnePlaceholder(parts)
        => last.prev = IF StepByStep(scopes, last.d, parts[1].s) # VNone
                       THEN StepByStep(scopes, last.d, parts[1].s)
                       ELSE VStr(last.hash)

(***************************************************************************)
(* C29  Plan-input interpolation.  After load_plan and any sequence of     *)
(* set_inputs calls every component instance has been constructed from    *)
(* the plan config in which each {$inputs.X} is resolved against the       *)
(* accumulated user inputs: the user's value, else the declared default,   *)
(* else the reference is left as written.  A string that is exactly        *)
(* "{$inputs.X}" yields the raw value with its type, a partial reference   *)
(* yields a string.                                                        *)
(***************************************************************************)
(* the strings of the plan's configs as parts *)
InputPartLists ==
    { <<Ref("$inputs.n")>>, <<Ref("$inputs.z")>>, <<Ref("$inputs.m")>>,
      <<Ref("$inputs.w")>>, <<Lit("{n}")>>,
      <<Lit("run-"), Ref("$inputs.n"), Lit("-"), Ref("$inputs.m")>>,
      <<Ref("$inputs.w"), Lit("!")>> }

(* the name X of the reference $inputs.X *)
InputName(ref) == SubSeq(ref, 9, Len(ref))

Supplied(name) == \E i \in 1..Len(plan_inputs) : plan_inputs[i].k = name

HasDefault(name) ==
    \E i \in 1..Len(plan.declared) :
        plan.declared[i].k = name /\ plan.declared[i].v # VNone

(* user value, else declared default *)
Accumulated(name) ==
    IF Supplied(name)
    THEN plan_inputs[CHOOSE i \in 1..Len(plan_inputs) : plan_inputs[i].k = name].v
    ELSE plan.declared[CHOOSE i \in 1..Len(plan.declared) : plan.declared[i].k = name].v

RECURSIVE Interpolated(_)
Interpolated(parts) ==
    IF parts = <<>> THEN ""
    ELSE LET part == parts[1]
             name == InputName(part.s)
         IN  (IF ~part.ref THEN part.s
              ELSE IF Supplied(name) \/ HasDefault(name) THEN PyStr(Accumulated(name))
              ELSE "{" \o part.s \o "}")
             \o Interpolated(Tail(parts))

RECURSIVE ExpectedConfig(_)
ExpectedConfig(v) ==
    CASE v.t = "str" ->
            LET parts == CHOOSE p \in InputPartLists : TemplateOf(p) = v.s
                name == InputName(parts[1].s)
            IN  IF OnePlaceholder(parts)
                THEN (IF Supplied(name) \/ HasDefault(name)
                      THEN Accumulated(name) ELSE v)
                ELSE VStr(Interpolated(parts))
      [] v.t = "list" -> VList([i \in 1..Len(v.l) |-> ExpectedConfig(v.l[i])])
      [] v.t = "dict" ->
            VDict([i \in 1..Len(v.d) |-> KV(v.d[i].k, ExpectedConfig(v.d[i].v))])
      [] OTHER -> v

C29_InputInterpolation ==
    /\ [](plan # NoPlan =>
            /\ Len(components) = Len(plan.components)
            /\ \A i \in 1..Len(components) :
                  components[i] =
                      KV(plan.components[i].id,
                         ExpectedConfig(VDict(ConfigOf(plan.components[i])))))
    /\ [][last'.op = "set_inputs" =>
            \A name \in DKeys(plan_inputs) \cup DKeys(last'.out) :
                /\ DHas(plan_inputs', name)
                /\ DGet(plan_inputs', name) =
                      IF DHas(last'.out, name) THEN DGet(last'.out, name)
                      ELSE DGet(plan_inputs, name)]_vars

(* set_inputs({n: 5}) after load_plan, with m not supplied: threshold is   *)
(* the integer 5, the label a string, zero the default 0                   *)
C29_Witness ==
    /\ plan = PlanInputs
    /\ last.op = "set_inputs"
    /\ last.out = <<KV("n", VInt(5))>>
    /\ ~DHas(plan_inputs, "m")
    /\ DGet(components[1].v.d, "threshold") = VInt(5)
    /\ DGet(components[1].v.d, "label") = VStr("run-5-{$inputs.m}")
    /\ DGet(components[1].v.d, "zero") \in {VInt(0), VInt(7)}
    /\ components[2] = KV("u", VDict(<<>>))

(***************************************************************************)
(* C30  No shared state is written during execution: executing a plan,     *)
(* plans that call composites included, leaves the registered composite    *)
(* definitions exactly as they were, so an engine cannot change the        *)
(* configuration another engine's components are built from.               *)
(***************************************************************************)
C30_RegistryReadOnly == definitions = RegisteredDefinitions

(***************************************************************************)
(* C31  Composite isolation.  A composite call runs its inner plan in a    *)
(* fresh sub-engine whose context is separate from the caller's: the inner *)
(* steps see only the composite's inputs as initial variables, nothing of  *)
(* the outer context (variables, root cache, returns, finalized sinks) is  *)
(* read or written by them, and the composite returns exactly one output   *)
(* per key of output_mappings, each evaluated against the inner context    *)
(* after the inner flow ended.                                             *)
(***************************************************************************)
(* what {q} stands for inside the composite: its input q, else the text *)
InnerQ == IF DHas(plan_inputs, "q") THEN PyStr(DGet(plan_inputs, "q")) ELSE "{q}"

C31_CompositeIsolation ==
    /\ [](last.op = "composite" =>
            LET mappings == definitions.cmp.output_mappings IN
            /\ Len(hist.inner) = 1
            /\ \A name \in DKeys(plan_inputs) \ {"r"} :
                  CtxGet(hist.inner, 1, name) = DGet(plan_inputs, name)
            /\ DKeys(hist.inner[1].vars) = DKeys(plan_inputs) \cup {"r"}
            /\ Len(last.out) = Len(mappings)
            /\ \A i \in 1..Len(mappings) :
                  /\ last.out[i].k = mappings[i].k
                  /\ last.out[i].v = Resolve(hist.inner, 1, mappings[i].v)
            /\ last.out = << KV("answer", VStr(InnerQ \o "-{secret}")),
                             KV("seen", VStr("{secret}")),
                             KV("both", VStr(InnerQ \o "-{secret}" \o InnerQ
                                             \o "-{secret}")) >>)
    /\ [][last'.op = "composite" => scopes' = scopes]_vars

(* a composite called without the input q, from a scope where q, secret, r *)
(* and the outputs of a component "bare" exist                             *)
C31_Witness ==
    /\ last.op = "composite"
    /\ plan_inputs = <<>>
    /\ CtxGet(scopes, Len(scopes), "q") = VStr("Q")
    /\ CtxGet(scopes, Len(scopes), "secret") = VStr("S")
    /\ DGet(last.out, "answer") = VStr("{q}-{secret}")

(***************************************************************************)
(* C32  State-log round trip.  After any sequence of call_complete events  *)
(* (hash, outputs) was appended to the state file, reloading the file      *)
(* gives completed_calls exactly: the hashes of the appended events, each  *)
(* with the outputs of its last call_complete event, and none of these     *)
(* hashes in pending_calls.  The outputs of an event are its JSON value.   *)
(***************************************************************************)
Appended(h) == {j \in 1..Len(hist.writes) : hist.writes[j].call_hash = h}

LastAppended(h) ==
    hist.writes[CHOOSE j \in Appended(h) : \A n \in Appended(h) : n <= j]

C32_LogRoundTrip ==
    last.op = "load" =>
       /\ DKeys(state.completed_calls) = {h \in LogHashes : Appended(h) # {}}
       /\ Len(state.completed_calls) = Cardinality(DKeys(state.completed_calls))
       /\ \A h \in DKeys(state.completed_calls) :
             /\ DGet(state.completed_calls, h)
                   = JsonValue(VDict(LastAppended(h).outputs))
             /\ h \notin state.pending_calls

(* both hashes were started, h1 was completed twice with different outputs *)
(* and the file was read back                                              *)
C32_Witness ==
    /\ last.op = "load"
    /\ Cardinality(Appended("h1")) = 2
    /\ hist.writes[1].call_hash = "h1"
    /\ hist.writes[1].outputs # LastAppended("h1").outputs
    /\ state.pending_calls = {"h2"}
    /\ DGet(state.completed_calls, "h1") = VDict(LastAppended("h1").outputs)

-----------------------------------------------------------------------------
(* the writes of the state file in the order they were appended *)
RECURSIVE Writes(_)
Writes(f) == IF f = <<>> THEN <<>> ELSE f[1] \o Writes(Tail(f))

Alive == persistent /\ phase \in {"running", "finishing", "done"}

(* C33: event ordering.  A component is executed only after call_start of  *)
(* its hash was appended by the same execute(); call_complete(h) is        *)
(* appended after the component returned, after call_start(h) and before   *)
(* the run_complete of that execute(); every iteration_complete(k) follows *)
(* an iteration_start(k) of the same execute(); run_complete is the last   *)
(* event an execute() appends.                                             *)
C33_EventOrdering ==
    /\ [](LET w == Writes(file) IN
          /\ \A p \in 1..Len(w) :
                LET ev == w[p].ev IN
                /\ ev.type = "call_complete" =>
                      /\ \E q \in 1..(p - 1) :
                            /\ w[q].ev.type = "call_start"
                            /\ w[q].ev.call_hash = ev.call_hash
                            /\ w[q].ev.g.run = ev.g.run
                            /\ w[q].ev.g.site = ev.g.site
                      /\ Alive /\ ev.g.run = run =>
                            \E x \in hist.execs :
                               x.ok /\ x.hash = ev.call_hash /\ x.site = ev.g.site
                /\ ev.type = "iteration_complete" =>
                      \E q \in 1..(p - 1) :
                         /\ w[q].ev.type = "iteration_start"
                         /\ w[q].ev.iteration_key = ev.iteration_key
                         /\ w[q].ev.g.run = ev.g.run
                /\ ev.type = "run_complete" =>
                      \A q \in (p + 1)..Len(w) : w[q].ev.g.run # ev.g.run
          /\ Alive =>
                \A x \in hist.execs :
                   x.ok /\ StepOf(x.site).tag = "call" => \E p \in 1..Len(w) :
                              /\ w[p].ev.type = "call_complete"
                              /\ w[p].ev.call_hash = x.hash
                              /\ w[p].ev.g.run = run
                              /\ w[p].full)
    /\ [][persistent /\ hist'.execs # hist.execs /\ phase = "running" =>
             \A x \in hist'.execs \ hist.execs :
                StepOf(x.site).tag = "call" =>
                \E p \in 1..Len(Writes(file)) :
                   LET ev == Writes(file)[p].ev IN
                   /\ ev.type = "call_start"
                   /\ ev.call_hash = x.hash
                   /\ ev.g.run = run
                   /\ ev.g.site = x.site
                   /\ Writes(file)[p].full]_vars

(* C33 witness: a resumed run that executed a call inside an iteration has *)
(* logged run_complete                                                     *)
C33_Witness ==
    /\ persistent
    /\ run > 1
    /\ phase = "done"
    /\ LastWrite(file).ev.type = "run_complete"
    /\ \E x \in hist.execs :
          x.ok /\ x.site.list # <<>> /\ StepOf(x.site).tag = "call"
    /\ \E p \in 1..Len(Writes(file)) :
          /\ Writes(file)[p].ev.type = "iteration_complete"
          /\ Writes(file)[p].ev.g.run = run

-----------------------------------------------------------------------------
(* C34: iteration key format.  The key logged by iteration_start is the    *)
(* path of the enclosing iterations, "/", and loop_var[index]:str(item),   *)
(* the path holding one segment per enclosing iteration.  The code appends *)
(* the iteration's own segment to the path before it builds the key, so    *)
(* the segment is in the key twice.                                        *)
C34_IterationKeyFormat ==
    [][IterRun /\ phase' = "running" =>
          LastWrite(file').ev.iteration_key =
             JoinStr(loop_path, "/") \o "/"
                \o IterVar \o "[" \o ToString(Top.i) \o "]:" \o PyStr(IterItem)]_vars

-----------------------------------------------------------------------------
(* DataflowEngine.execute as a function of the plan: the steps run in      *)
(* order on a chain of contexts with one instance of each component and no *)
(* component raising; err is set when a step raises.                       *)
RECURSIVE PlainSteps(_, _, _)
RECURSIVE PlainLoop(_, _, _, _, _)
RECURSIVE PlainStep(_, _, _)

PlainStart(p) ==
    [sc |-> <<NewContext(p.inputs)>>, cs |-> FreshComps, execs |-> <<>>,
     err |-> FALSE]

(* _execute_step: dispatch on the step type *)
PlainStep(p, st, step) ==
    LET d == Len(st.sc)
        id == step.id
        inputs == ResolveInputs(st.sc, d, step.inputs)
    IN  CASE step.tag = "source" ->
               [st EXCEPT !.sc = SetComponentOutput(@, 1, id, SourceExecute(p.value)),
                          !.execs = Append(@, id)]
          [] step.tag = "call" ->
               IF ~Validate(id, inputs) THEN [st EXCEPT !.err = TRUE]
               ELSE LET r == TransformExecute(id, st.cs, inputs) IN
                    [st EXCEPT !.sc = SetComponentOutput(
                                         ApplyOutputs(@, d, step.outputs, r.out),
                                         1, id, r.out),
                               !.cs = r.cs,
                               !.execs = Append(@, id)]
          [] step.tag = "sink" ->
               LET r == CollectorExecute(id, st.cs, inputs)
                   written == IF r.ret # <<>> THEN WriteReturn(st.sc, d, r.ret)
                              ELSE st.sc
               IN  [st EXCEPT !.sc = MarkSinkFinalized(
                                        SetComponentOutput(written, 1, id, r.out),
                                        1, id),
                              !.cs = r.cs,
                              !.execs = Append(@, id)]
          [] step.tag = "loop" ->
               LET collection == Resolve(st.sc, d, VStr("{" \o step.over \o "}")) IN
               IF collection = VNone \/ ~Iterable(collection)
               THEN [st EXCEPT !.err = TRUE]
               ELSE PlainLoop(p, st, step, Items(collection), 1)
          [] step.tag = "conditional" ->
               IF IsTruthy(Resolve(st.sc, d, VStr(step.cif)))
               THEN PlainSteps(p, st, step.steps)
               ELSE PlainSteps(p, st, step.els)
          [] OTHER -> [st EXCEPT !.err = TRUE]

(* _execute_steps *)
PlainSteps(p, st, steps) ==
    IF steps = <<>> \/ st.err THEN st
    ELSE PlainSteps(p, PlainStep(p, st, steps[1]), Tail(steps))

(* _execute_loop from iteration n on: a child context for the iteration,   *)
(* dropped after its steps                                                 *)
PlainLoop(p, st, step, items, n) ==
    IF n > Len(items) \/ st.err THEN st
    ELSE LET item == <<KV(step.as, items[n])>>
             loop_vars == IF step.index # "" THEN DSet(item, step.index, VInt(n - 1))
                          ELSE item
             inner == PlainSteps(p, [st EXCEPT !.sc = Child(@, loop_vars)],
                                 step.steps)
         IN  PlainLoop(p, [inner EXCEPT !.sc = SubSeq(@, 1, Len(st.sc))],
                       step, items, n + 1)

PlainRun(p) == PlainSteps(p, PlainStart(p), p.flow)

(* the plans and runs the comparison is about: valid, no step raising in   *)
(* the plain engine, no component failing                                  *)
Deterministic ==
    /\ ValidatePlan(plan) = {}
    /\ fails = 0
    /\ ~PlainRun(plan).err

(* the function agrees with the interpreter on runs of the plain engine *)
PlainAgrees ==
    ~persistent /\ phase = "done" /\ Deterministic =>
        /\ scopes = PlainRun(plan).sc
        /\ comps = PlainRun(plan).cs
        /\ result.success
        /\ result.outputs = CollectFrom(PlainRun(plan).sc[1].outs)

(* every earlier process on the state file died before its run_complete *)
AfterCrash ==
    /\ Resumed
    /\ \A j \in 1..Len(Writes(file)) :
          Writes(file)[j].ev.type = "run_complete" => Writes(file)[j].ev.g.run = run

(* C35: resume equivalence.  With deterministic components, a persistent   *)
(* run that crashed and was resumed with the same run_id, plan and inputs  *)
(* ends with the root output cache and the sink outputs of a run that was  *)
(* never interrupted; a collector filled in a loop and finalized after it  *)
(* holds one item per iteration.  In the code a skipped iteration restores *)
(* nothing: neither the cache entries of its calls nor what its sink steps *)
(* had collected.                                                          *)
C35_ResumeEquivalence ==
    AfterCrash /\ phase = "done" /\ Deterministic =>
        /\ scopes[1].outs = PlainRun(plan).sc[1].outs
        /\ result.outputs = CollectFrom(PlainRun(plan).sc[1].outs)

-----------------------------------------------------------------------------
(* C36: a fresh persistent run refines the plain engine.  Started with no  *)
(* state file and never interrupted, the persistent engine executes the    *)
(* components as often as the plain engine does on the same plan and       *)
(* inputs and ends with the same variables, root output cache, component   *)
(* state and sink outputs.  In the code a second call with an equal hash   *)
(* is served from the cache and a later loop with the keys of an earlier   *)
(* one skips its iterations.                                               *)
C36_FreshRefinesPlain ==
    persistent /\ run = 1 /\ phase = "done" /\ Deterministic =>
        /\ Cardinality({x \in hist.execs : x.ok}) = Len(PlainRun(plan).execs)
        /\ scopes = PlainRun(plan).sc
        /\ comps = PlainRun(plan).cs
        /\ result.outputs = CollectFrom(PlainRun(plan).sc[1].outs)

-----------------------------------------------------------------------------
(* what _load_existing_state of process r found: the file is append only,  *)
(* so it is the writes of the processes before r                           *)
WrittenBefore(r) ==
    [j \in 1..Len(file) |-> SelectSeq(file[j], LAMBDA w : w.ev.g.run < r)]

LoadedBy(r) == LoadExistingState(WrittenBefore(r))

(* C37: recovered progress never shrinks.  What the load of the running    *)
(* process reported as completed, call hashes and iteration keys, is       *)
(* reported as completed by a load of the file as it is at any later time, *)
(* also after a crash that left the last line without its newline.  The    *)
(* code appends the first event of the resumed run to that line, and the   *)
(* line no longer parses.                                                  *)
C37_ProgressNeverShrinks ==
    persistent /\ run > 1 /\ phase # "new" =>
        LET early == LoadedBy(run)
            later == LoadExistingState(file)
        IN  /\ DKeys(early.completed_calls) \subseteq DKeys(later.completed_calls)
            /\ early.completed_iterations \subseteq later.completed_iterations

-----------------------------------------------------------------------------
(* the state file holds the run_start of another run: another run_id or    *)
(* another plan                                                            *)
Foreign ==
    /\ persistent
    /\ \E j \in 1..Len(file) :
          /\ ParseOk(file[j])
          /\ file[j][1].ev.type = "run_start"
          /\ file[j][1].ev.g.run < run
          /\ file[j][1].ev.run_id # run_id \/ file[j][1].ev.plan_name # plan.name

(* C38: resume is bound to the run.  An engine whose run_id or plan is not *)
(* the one of the state file's run_start serves a call from the cache only *)
(* when it completed that call itself, and skips an iteration only when it *)
(* completed that iteration itself.  The code never compares the run_id    *)
(* or the plan name.                                                       *)
C38_ResumeBoundToRun ==
    [][Foreign /\ phase = "running" =>
          /\ last'.op = "call_hit" =>
                \E x \in hist.execs : x.ok /\ x.hash = last'.hash
          /\ last'.op = "iter_skip" =>
                \E j \in 1..Len(Writes(file)) :
                   /\ Writes(file)[j].ev.type = "iteration_complete"
                   /\ Writes(file)[j].ev.iteration_key = last'.hash
                   /\ Writes(file)[j].ev.g.run = run]_vars

-----------------------------------------------------------------------------
(* C39: one record per failure.  Under the stop policy a run in which one  *)
(* step failed ends with exactly one entry in result.errors, and its       *)
(* run_complete event has errors_count = 1, at any nesting depth.  In the  *)
(* code every enclosing _execute_steps appends a record before it raises   *)
(* again, and execute() appends one more.                                  *)
C39_OneRecordPerFailure ==
    policy = "stop" /\ result.done /\ Cardinality(hist.raised) = 1 =>
        /\ Len(errors) = 1
        /\ persistent /\ phase = "done" =>
              /\ LastWrite(file).ev.type = "run_complete"
              /\ LastWrite(file).ev.errors_count = 1

-----------------------------------------------------------------------------
(* the value a declared plan input has: the user-supplied one, or else its *)
(* declared default                                                        *)
ValueOf(name) ==
    IF DHas(plan_inputs, name) THEN DGet(plan_inputs, name)
    ELSE DGet(GetInputSchema(plan), name)

(* C40: plan inputs are flow variables.  In the root context execute()     *)
(* creates, every declared plan input that has a value, user-supplied or   *)
(* else its declared default, is read by {name}, from the root scope and   *)
(* from a scope below it.  The code puts only the user-supplied values     *)
(* into the root context.                                                  *)
C40_InputsAreVariables ==
    [][last'.op = "context" =>
          \A name \in DKeys(GetInputSchema(plan)) :
             ValueOf(name) # VNone =>
                /\ Resolve(scopes', 1, VStr("{" \o name \o "}")) = ValueOf(name)
                /\ Resolve(Child(scopes', <<KV("it", VInt(0))>>), 2,
                           VStr("{" \o name \o "}")) = ValueOf(name)]_vars

=============================================================================
